---- MODULE Spec2Model ----
(***************************************************************************)
(* Learner-state estimation engine: Bayesian Knowledge Tracing trackers,   *)
(* the adaptive BKT system that owns and re-fits them, and the ML state    *)
(* predictors with their confidence-gated fusion into the learner model.   *)
(*                                                                         *)
(* Probabilities are Python floats in the source.  They are represented    *)
(* here in fixed point: the integer v stands for v / Scale, products are   *)
(* carried at scale Scale*Scale and quotients are rounded down.            *)
(***************************************************************************)
EXTENDS Integers, Sequences, FiniteSets, TLC

VARIABLES
    trackers,        \* AdaptiveBKTSystem.trackers: knowledge point -> tracker
    fitted_params,   \* BKTParameterEstimator.fitted_params
    bkt_file,        \* data/single_user/bkt_data.json: the exported blob
    predictors,      \* MLStatePredictor's two predictors and their engineers
    training_data,   \* MLStatePredictor.training_data
    cognitive_state, \* the learner model's cognitive_state fields
    in_flight,       \* update_mastery calls in progress: caller -> frame
    models,          \* StudentModelService.models: student -> StudentModel
    ret              \* outcome of the last call (operation, result, raised)

bktVars == <<trackers, fitted_params, bkt_file>>
mlVars == <<predictors, training_data, cognitive_state>>
svcVars == <<in_flight, models>>
vars == <<trackers, fitted_params, bkt_file,
          predictors, training_data, cognitive_state, in_flight, models, ret>>

(***************************************************************************)
(* Fixed-point representation                                              *)
(***************************************************************************)
Scale == 1000

\* the 1e-10 floor of the denominator; the denominator is carried at scale
\* Scale*Scale, where every positive value is >= 1 unit > 1e-10
DenomFloor == 1

\* BKTParameters() defaults
DefaultParams == [P_L0 |-> 100, P_T |-> 300, P_G |-> 100, P_S |-> 100]

ParamNames == {"P_L0", "P_T", "P_G", "P_S"}

(***************************************************************************)
(* Bounds and input sets                                                   *)
(***************************************************************************)
\* longest observation sequence fed to a stand-alone tracker
MaxTrackerObs == 4

\* probabilities tried as stand-alone tracker parameters (0 and 1 included)
ProbGrid == {0, 10, 100, 300, 500, 990, Scale}

KPs == {"css_grid", "flexbox"}

\* no bkt_data.json on disk
NoFile == [exists |-> FALSE, trackers |-> << >>, fitted_parameters |-> << >>]

(***************************************************************************)
(* ML predictors and learner model: construction                           *)
(***************************************************************************)
PredNames == {"cognitive_load", "confusion"}

\* CognitiveLoadPredictor() / ConfusionPredictor() with their
\* FeatureEngineer(): nothing trained, nothing fitted.  fit_returned is a
\* history flag: some fit_transform call on the engineer has returned.
NewPredictor ==
    [is_trained |-> FALSE, is_fitted |-> FALSE, scaler_fitted |-> FALSE,
     selector_fitted |-> FALSE, fit_returned |-> FALSE]

\* number of buffered samples per cognitive-load label
EmptyTrainingData == [low |-> 0, medium |-> 0, high |-> 0]

\* CognitiveState defaults
DefaultCognitiveState ==
    [cognitive_load |-> "medium", load_confidence |-> 0,
     confusion_score |-> 0, confusion_level |-> "none"]

MLStart ==
    /\ predictors = [p \in PredNames |-> NewPredictor]
    /\ training_data = EmptyTrainingData
    /\ cognitive_state = DefaultCognitiveState

\* no update_mastery call is in progress
NoCalls == << >>

\* StudentModelService(): self.models = {}
NoModels == << >>

ServiceStart ==
    /\ in_flight = NoCalls
    /\ models = NoModels

\* LearningObservation: only `correct` is read by the tracker and the
\* estimator; the remaining fields are carried opaquely
Observations == [correct : BOOLEAN]

(***************************************************************************)
(* BayesianKnowledgeTracker                                                *)
(***************************************************************************)
\* mutant: a new tracker starts from an even prior instead of P(L0)
NewTrackerEvenPrior(params) ==
    [params |-> params,
     observations |-> <<>>,
     mastery_probabilities |-> <<>>,
     current_mastery_prob |-> Scale \div 2]

NewTracker(params) ==
    [params |-> params,
     observations |-> <<>>,
     mastery_probabilities |-> <<>>,
     current_mastery_prob |-> params.P_L0]

\* P(evidence | mastered) and P(evidence | not mastered)
PGivenMastery(params, correct) ==
    IF correct THEN Scale - params.P_S ELSE params.P_S

PGivenNoMastery(params, correct) ==
    IF correct THEN params.P_G ELSE Scale - params.P_G

Numerator(params, m, correct) == PGivenMastery(params, correct) * m

Denominator(params, m, correct) ==
    LET d == PGivenMastery(params, correct) * m
             + PGivenNoMastery(params, correct) * (Scale - m)
    IN  IF d < DenomFloor THEN DenomFloor ELSE d

Posterior(params, m, correct) ==
    (Numerator(params, m, correct) * Scale) \div Denominator(params, m, correct)

\* mutant: the learning transition adds P(T) without the (1 - posterior) factor
TransitionNoComplement(posterior, pT) == posterior + pT

Transition(posterior, pT) ==
    posterior + (pT * (Scale - posterior)) \div Scale

\* mutant: the evidence branch is taken as if every answer were correct
NewMasteryAlwaysCorrect(params, m, correct) ==
    Transition(Posterior(params, m, TRUE), params.P_T)

NewMastery(params, m, correct) ==
    Transition(Posterior(params, m, correct), params.P_T)

\* mutant: the trajectory records the posterior instead of the new mastery
UpdatedTrackerLogsPosterior(tr, obs) ==
    LET m == NewMastery(tr.params, tr.current_mastery_prob, obs.correct)
    IN  [tr EXCEPT !.observations = Append(@, obs),
                   !.current_mastery_prob = m,
                   !.mastery_probabilities =
                       Append(@, Posterior(tr.params, tr.current_mastery_prob,
                                           obs.correct))]

\* the tracker after update_mastery(observation)
UpdatedTracker(tr, obs) ==
    LET m == NewMastery(tr.params, tr.current_mastery_prob, obs.correct)
    IN  [tr EXCEPT !.observations = Append(@, obs),
                   !.current_mastery_prob = m,
                   !.mastery_probabilities = Append(@, m)]

(***************************************************************************)
(* Stand-alone tracker: any parameters, any short observation sequence     *)
(***************************************************************************)
TrackerKP == "css_grid"

InitTracker ==
    /\ \E p \in [ParamNames -> ProbGrid] :
          trackers = (TrackerKP :> NewTracker(p))
    /\ fitted_params = << >>
    /\ bkt_file = NoFile
    /\ MLStart
    /\ ServiceStart
    /\ ret = [op |-> "init", kp |-> TrackerKP, value |-> 0, raised |-> FALSE]

update_mastery(kp, obs) ==
    /\ kp \in DOMAIN trackers
    /\ Len(trackers[kp].observations) < MaxTrackerObs
    /\ trackers' = [trackers EXCEPT ![kp] = UpdatedTracker(@, obs)]
    /\ ret' = [op |-> "update_mastery", kp |-> kp,
               value |-> trackers'[kp].current_mastery_prob, raised |-> FALSE]
    /\ UNCHANGED <<svcVars, fitted_params, bkt_file, mlVars>>

NextTracker == \E obs \in Observations : update_mastery(TrackerKP, obs)

SpecTracker == InitTracker /\ [][NextTracker]_vars

(***************************************************************************)
(* Properties of the stand-alone tracker                                   *)
(***************************************************************************)
IsProb(v) == v \in 0..Scale

AllIncorrect(obsSeq) == \A i \in 1..Len(obsSeq) : ~obsSeq[i].correct

\* C1: for every tracker whose four parameters are probabilities in [0,1]
\* and every observation sequence, current_mastery_prob and every entry of
\* mastery_probabilities lie in [0,1] after each update_mastery.
C1_MasteryInUnitInterval ==
    \A kp \in DOMAIN trackers :
        (\A n \in ParamNames : IsProb(trackers[kp].params[n])) =>
            /\ IsProb(trackers[kp].current_mastery_prob)
            /\ \A i \in 1..Len(trackers[kp].mastery_probabilities) :
                   IsProb(trackers[kp].mastery_probabilities[i])

\* C1 witness: a tracker with degenerate parameters (P_S = 0, P_G = 1) that
\* has taken three updates, the last on an incorrect answer, where the
\* denominator of the posterior is zero and the floor applies.
C1_Witness ==
    \E kp \in DOMAIN trackers :
        /\ trackers[kp].params.P_S = 0
        /\ trackers[kp].params.P_G = Scale
        /\ trackers[kp].params.P_T = 990
        /\ Len(trackers[kp].observations) >= 3
        /\ ~trackers[kp].observations[3].correct
        /\ ret.op = "update_mastery"

\* an update_mastery step that appends an incorrect answer (any one of
\* three consecutive incorrect answers) on a tracker with P_S = P_G = 0.1
C2_Case(kp) ==
    /\ ret'.op = "update_mastery" /\ ret'.kp = kp
    /\ kp \in DOMAIN trackers /\ kp \in DOMAIN trackers'
    /\ trackers[kp].params.P_S = Scale \div 10
    /\ trackers[kp].params.P_G = Scale \div 10
    /\ Len(trackers'[kp].observations) = Len(trackers[kp].observations) + 1
    /\ ~trackers'[kp].observations[Len(trackers'[kp].observations)].correct

\* C2 (as claimed): with P_S = P_G = 0.1, across three consecutive incorrect
\* observations the mastery after each update is <= the mastery before it.
C2_Original_NeverIncreases ==
    [][\A kp \in KPs : C2_Case(kp) =>
          trackers'[kp].current_mastery_prob <= trackers[kp].current_mastery_prob]_vars

\* C2 (amended): with P_S = P_G = 0.1, across three consecutive incorrect
\* observations the evidence step never raises the mastery: the mastery
\* after each update is at most m + P_T*(1 - m) for the mastery m before
\* it, so it cannot increase when P_T = 0; the learning transition can
\* raise it otherwise.
C2_EvidenceNeverIncreases ==
    [][\A kp \in KPs : C2_Case(kp) =>
          /\ trackers'[kp].current_mastery_prob
                <= Transition(trackers[kp].current_mastery_prob,
                              trackers[kp].params.P_T)
          /\ (trackers[kp].params.P_T = 0 =>
                trackers'[kp].current_mastery_prob
                    <= trackers[kp].current_mastery_prob)]_vars

\* C2 witness: default parameters, three incorrect answers, and the mastery
\* rose on each of them through the learning transition.
C2_Witness ==
    \E kp \in DOMAIN trackers :
        LET tr == trackers[kp] IN
        /\ tr.params = DefaultParams
        /\ Len(tr.observations) = 3
        /\ AllIncorrect(tr.observations)
        /\ tr.mastery_probabilities[1] > tr.params.P_L0
        /\ tr.mastery_probabilities[2] > tr.mastery_probabilities[1]
        /\ tr.mastery_probabilities[3] > tr.mastery_probabilities[2]

\* C6: after every update_mastery call, observations and
\* mastery_probabilities have equal length, each one longer than before with
\* the earlier entries unchanged, and the last mastery_probabilities entry
\* equals current_mastery_prob and the returned value.
C6_AppendOnly ==
    [][ret'.op = "update_mastery" =>
          LET b == trackers[ret'.kp]
              a == trackers'[ret'.kp]
              n == Len(b.observations)
          IN  /\ Len(a.observations) = Len(a.mastery_probabilities)
              /\ Len(a.observations) = n + 1
              /\ Len(b.mastery_probabilities) = n
              /\ SubSeq(a.observations, 1, n) = b.observations
              /\ SubSeq(a.mastery_probabilities, 1, n) = b.mastery_probabilities
              /\ a.mastery_probabilities[n + 1] = a.current_mastery_prob
              /\ ret'.value = a.current_mastery_prob]_vars

\* C6 witness: a second update has been applied and the two recorded
\* masteries differ.
C6_Witness ==
    \E kp \in DOMAIN trackers :
        /\ ret.op = "update_mastery"
        /\ Len(trackers[kp].observations) = 2
        /\ Len(trackers[kp].mastery_probabilities) = 2
        /\ trackers[kp].mastery_probabilities[1] # trackers[kp].mastery_probabilities[2]
        /\ ret.value = trackers[kp].mastery_probabilities[2]

\* the mastery the claim computes for a first correct answer from prior m:
\* p = m(1 - P_S) / (m(1 - P_S) + (1 - m) P_G), then p + P_T (1 - p)
C13_FirstCorrect(params, m) ==
    LET p == (m * (Scale - params.P_S) * Scale)
                \div (m * (Scale - params.P_S) + (Scale - m) * params.P_G)
    IN  p + (params.P_T * (Scale - p)) \div Scale

\* C13: a tracker created with P_L0 = 0.1, P_T = 0.3, P_G = 0.1, P_S = 0.1
\* that receives a single correct observation has current_mastery_prob
\* p + 0.3 (1 - p) with p = 0.1*0.9 / (0.1*0.9 + 0.9*0.1), i.e. 0.65; the
\* first update uses P_L0 as the prior (also for the other parameter
\* choices for which the posterior's denominator is positive).
C13_FirstCorrectUpdate ==
    \A kp \in DOMAIN trackers :
        LET tr == trackers[kp] IN
        (Len(tr.observations) = 1 /\ tr.observations[1].correct) =>
            /\ tr.params = DefaultParams =>
                   /\ tr.current_mastery_prob = 650
                   /\ tr.mastery_probabilities = <<650>>
            /\ (tr.params.P_L0 * (Scale - tr.params.P_S)
                    + (Scale - tr.params.P_L0) * tr.params.P_G > 0) =>
                   tr.current_mastery_prob
                       = C13_FirstCorrect(tr.params, tr.params.P_L0)

\* C13 witness: the default-parameter tracker after its first, correct,
\* observation, at mastery 0.65.
C13_Witness ==
    \E kp \in DOMAIN trackers :
        /\ trackers[kp].params = DefaultParams
        /\ Len(trackers[kp].observations) = 1
        /\ trackers[kp].observations[1].correct
        /\ trackers[kp].current_mastery_prob = 650
        /\ ret.op = "update_mastery" /\ ret.value = 650

(***************************************************************************)
(* BKTParameterEstimator                                                   *)
(***************************************************************************)
\* box passed to minimize(..., method='L-BFGS-B', bounds=bounds)
PMin == 10
PMax == 990

\* values of one coordinate of result.x: both ends of the box and an
\* interior point
FitGrid == {PMin, 300, PMax}

\* mutant: the optimizer runs without the bounds argument
FitResultsUnbounded == [ParamNames -> {0, 300, Scale}]

\* result.x of a converged L-BFGS-B run: a point of the closed box (the
\* optimizer projects its iterates onto the bounds)
FitResults == [ParamNames -> FitGrid]

\* what scipy.optimize.minimize can do: converge to a point of the box,
\* report result.success = False, or raise
FitOutcomes ==
    [kind : {"success"}, x : FitResults]
        \cup {[kind |-> "not_converged"], [kind |-> "exception"]}

NoFit == [kind |-> "none"]

\* _fit_mle: <<returned parameters, fitted_params afterwards>>
FitMle(fp, kp, outcome) ==
    IF outcome.kind = "success"
    THEN <<outcome.x, [k \in DOMAIN fp \cup {kp} |->
                          IF k = kp THEN outcome.x ELSE fp[k]]>>
    ELSE <<DefaultParams, fp>>

\* fit_parameters (method = 'mle')
FitParameters(fp, kp, observations, outcome) ==
    IF observations = <<>>
    THEN <<DefaultParams, fp>>
    ELSE FitMle(fp, kp, outcome)

(***************************************************************************)
(* AdaptiveBKTSystem                                                       *)
(***************************************************************************)
min_observations_for_fitting == 10
refit_interval == 20

\* mutant: the lookup builds a new tracker even when one exists
GetTrackerFresh(trk, fp, kp) ==
    [k \in DOMAIN trk \cup {kp} |->
        IF k = kp
        THEN NewTracker(IF kp \in DOMAIN fp THEN fp[kp] ELSE DefaultParams)
        ELSE trk[k]]

\* get_tracker: the trackers map after the lookup (lazy creation)
GetTracker(trk, fp, kp) ==
    IF kp \in DOMAIN trk
    THEN trk
    ELSE [k \in DOMAIN trk \cup {kp} |->
            IF k = kp
            THEN NewTracker(IF kp \in DOMAIN fp THEN fp[kp] ELSE DefaultParams)
            ELSE trk[k]]

\* mutant: the re-fit restarts the tracker's mastery from the new P(L0)
RefitParametersRestartsMastery(trk, fp, kp, outcome) ==
    IF kp \notin DOMAIN trk
    THEN <<trk, fp>>
    ELSE LET fit == FitParameters(fp, kp, trk[kp].observations, outcome)
         IN  <<[trk EXCEPT ![kp].params = fit[1],
                           ![kp].current_mastery_prob = fit[1].P_L0], fit[2]>>

\* _refit_parameters: <<trackers afterwards, fitted_params afterwards>>
RefitParameters(trk, fp, kp, outcome) ==
    IF kp \notin DOMAIN trk
    THEN <<trk, fp>>
    ELSE LET fit == FitParameters(fp, kp, trk[kp].observations, outcome)
         IN  <<[trk EXCEPT ![kp].params = fit[1]], fit[2]>>

\* mutant: the first re-fit is due as soon as the threshold is reached
RefitDueAtThreshold(n) ==
    n = min_observations_for_fitting
        \/ (n >= min_observations_for_fitting /\ n % refit_interval = 0)

\* the re-fit condition of update_knowledge on the observation count
RefitDue(n) ==
    n >= min_observations_for_fitting /\ n % refit_interval = 0

InitSys ==
    /\ trackers = << >>
    /\ fitted_params = << >>
    /\ bkt_file = NoFile
    /\ MLStart
    /\ ServiceStart
    /\ ret = [op |-> "init", kp |-> "", value |-> 0, raised |-> FALSE]

\* mutant: the observation is applied to every tracker of the system
UpdateKnowledgeAllTrackers(trk, fp, kp, obs, outcome) ==
    LET trk1 == GetTracker(trk, fp, kp)
        trk2 == [k \in DOMAIN trk1 |-> UpdatedTracker(trk1[k], obs)]
        n    == Len(trk2[kp].observations)
        due  == RefitDue(n)
        re   == IF due THEN RefitParameters(trk2, fp, kp, outcome)
                       ELSE <<trk2, fp>>
    IN  [trackers |-> re[1], fitted_params |-> re[2],
         value |-> trk2[kp].current_mastery_prob, count |-> n, due |-> due]

\* update_knowledge(kp, obs) on trackers trk and fitted parameters fp: both
\* afterwards, the returned mastery, the observation count and whether a
\* re-fit was due; outcome is what the optimizer does in that case
UpdateKnowledge(trk, fp, kp, obs, outcome) ==
    LET trk1 == GetTracker(trk, fp, kp)
        trk2 == [trk1 EXCEPT ![kp] = UpdatedTracker(@, obs)]
        n    == Len(trk2[kp].observations)
        due  == RefitDue(n)
        re   == IF due THEN RefitParameters(trk2, fp, kp, outcome)
                       ELSE <<trk2, fp>>
    IN  [trackers |-> re[1], fitted_params |-> re[2],
         value |-> trk2[kp].current_mastery_prob, count |-> n, due |-> due]

update_knowledge(kp, obs, outcome) ==
    LET uk == UpdateKnowledge(trackers, fitted_params, kp, obs, outcome)
    IN  /\ (uk.due /\ outcome \in FitOutcomes) \/ (~uk.due /\ outcome = NoFit)
        /\ trackers' = uk.trackers
        /\ fitted_params' = uk.fitted_params
        /\ ret' = [op |-> "update_knowledge", kp |-> kp,
                   value |-> uk.value, raised |-> FALSE,
                   count |-> uk.count,
                   refit |-> IF uk.due THEN outcome.kind ELSE "none"]
        /\ UNCHANGED <<svcVars, bkt_file, mlVars>>

\* min(max(v, lo), hi)
Clamp(v, lo, hi) == IF v < lo THEN lo ELSE IF v > hi THEN hi ELSE v

\* BayesianKnowledgeTracker.predict_performance(difficulty):
\* <<probability of a correct answer, mastery probability>>
PredictPerformance(tr, difficulty) ==
    LET base_prob == (tr.current_mastery_prob * (Scale - tr.params.P_S)
                        + (Scale - tr.current_mastery_prob) * tr.params.P_G)
                            \div Scale
        difficulty_factor == Scale - (difficulty * 3) \div 10
        adjusted_prob == (base_prob * difficulty_factor) \div Scale
    IN  <<Clamp(adjusted_prob, 10, 990), tr.current_mastery_prob>>

\* difficulties asked about
Difficulties == {0, 500, Scale}

\* AdaptiveBKTSystem.predict_performance(kp, difficulty); again records
\* that the call before it was the same question
predict_performance(kp, difficulty) ==
    LET trk1 == GetTracker(trackers, fitted_params, kp)
    IN  /\ trackers' = trk1
        /\ ret' = [op |-> "predict_performance", kp |-> kp,
                   difficulty |-> difficulty,
                   value |-> PredictPerformance(trk1[kp], difficulty),
                   raised |-> FALSE,
                   created |-> kp \notin DOMAIN trackers,
                   again |-> /\ ret.op = "predict_performance"
                             /\ ret.kp = kp
                             /\ ret.difficulty = difficulty]
        /\ UNCHANGED <<svcVars, fitted_params, bkt_file, mlVars>>

\* the distinct elements of a list: the keys of a dict filled from it
Range(seq) == {seq[i] : i \in 1..Len(seq)}

\* sum(values) of a dict
RECURSIVE SumOf(_, _)
SumOf(f, keys) ==
    IF keys = {} THEN 0
    ELSE LET k == CHOOSE k \in keys : TRUE
         IN  f[k] + SumOf(f, keys \ {k})

\* the mastery get_overall_mastery records for one id: the tracker's, or
\* 0.1 when there is no tracker
MasteryProbability(trk, kp) ==
    IF kp \in DOMAIN trk THEN trk[kp].current_mastery_prob ELSE 100

\* mutant: the average divides by the length of the id list
GetOverallMasteryPerEntry(trk, ids) ==
    LET overall_stats == [k \in Range(ids) |-> MasteryProbability(trk, k)]
        keys == DOMAIN overall_stats
    IN  [knowledge_points |-> overall_stats,
         average_mastery |->
             IF keys # {} THEN SumOf(overall_stats, keys) \div Len(ids)
                          ELSE 100,
         total_knowledge_points |-> Len(ids),
         well_mastered_count |->
             Cardinality({k \in keys : overall_stats[k] > 800}),
         struggling_count |->
             Cardinality({k \in keys : overall_stats[k] < 300})]

\* get_overall_mastery(knowledge_point_ids): overall_stats is a dict keyed
\* by id, so an id listed twice has one entry; the trajectories are left out
GetOverallMastery(trk, ids) ==
    LET overall_stats == [k \in Range(ids) |-> MasteryProbability(trk, k)]
        keys == DOMAIN overall_stats
    IN  [knowledge_points |-> overall_stats,
         average_mastery |->
             IF keys # {} THEN SumOf(overall_stats, keys) \div Cardinality(keys)
                          ELSE 100,
         total_knowledge_points |-> Len(ids),
         well_mastered_count |->
             Cardinality({k \in keys : overall_stats[k] > 800}),
         struggling_count |->
             Cardinality({k \in keys : overall_stats[k] < 300})]

\* mutant: the scan goes through get_tracker and so creates missing trackers
get_overall_mastery_creating(ids) ==
    /\ ret' = [op |-> "get_overall_mastery", ids |-> ids,
               value |-> GetOverallMastery(trackers, ids), raised |-> FALSE]
    /\ trackers' = [k \in DOMAIN trackers \cup Range(ids) |->
                       IF k \in DOMAIN trackers THEN trackers[k]
                       ELSE GetTracker(trackers, fitted_params, k)[k]]
    /\ UNCHANGED <<svcVars, fitted_params, bkt_file, mlVars>>

get_overall_mastery(ids) ==
    /\ ret' = [op |-> "get_overall_mastery", ids |-> ids,
               value |-> GetOverallMastery(trackers, ids), raised |-> FALSE]
    /\ UNCHANGED <<svcVars, bktVars, mlVars>>

(***************************************************************************)
(* One knowledge point followed through its re-fits                        *)
(***************************************************************************)
\* observations fed to the followed knowledge point
MaxRefitObs == 40

\* incorrect answers among them
MaxIncorrect == 0

RefitKP == "css_grid"

NumIncorrect(obsSeq) ==
    Cardinality({i \in 1..Len(obsSeq) : ~obsSeq[i].correct})

ObsCount(kp) ==
    IF kp \in DOMAIN trackers THEN Len(trackers[kp].observations) ELSE 0

IncorrectCount(kp) ==
    IF kp \in DOMAIN trackers THEN NumIncorrect(trackers[kp].observations) ELSE 0

\* the optimizer outcomes to consider for the next update of kp
OutcomesFor(kp) ==
    IF RefitDue(ObsCount(kp) + 1) THEN FitOutcomes ELSE {NoFit}

NextRefit ==
    \E obs \in Observations, outcome \in OutcomesFor(RefitKP) :
        /\ ObsCount(RefitKP) < MaxRefitObs
        /\ (~obs.correct => IncorrectCount(RefitKP) < MaxIncorrect)
        /\ update_knowledge(RefitKP, obs, outcome)

SpecRefit == InitSys /\ [][NextRefit]_vars

(***************************************************************************)
(* Properties of the re-fit schedule and of the fitted parameters          *)
(***************************************************************************)
Refitted == ret.op = "update_knowledge" /\ ret.refit # "none"

FailedKinds == {"not_converged", "exception"}

\* C3 (as claimed): a re-fit is triggered on the update at which the count
\* reaches min_observations_for_fitting (10) and then once every
\* refit_interval (20) observations after that, and at no other count.
C3_Original_RefitFromThreshold ==
    ret.op = "update_knowledge" =>
        ((ret.refit # "none") <=>
            /\ ret.count >= min_observations_for_fitting
            /\ (ret.count - min_observations_for_fitting) % refit_interval = 0)

\* C3 (amended): update_knowledge triggers a re-fit exactly on the updates
\* at which the observation count is a positive multiple of refit_interval
\* (20, 40, ...), each of which is at least min_observations_for_fitting;
\* no re-fit is triggered at any other count, in particular none at 10.
C3_RefitAtMultiplesOfInterval ==
    ret.op = "update_knowledge" =>
        ((ret.refit # "none") <=>
            \E j \in 1..ret.count : ret.count = j * refit_interval)

\* C3 witness: the second re-fit, on the 40th observation.
C3_Witness ==
    /\ Refitted
    /\ ret.count = 2 * refit_interval
    /\ Len(trackers[ret.kp].observations) = 2 * refit_interval

\* C4: when the re-fit triggered by update_knowledge fails, the tracker's
\* parameters after the call equal its parameters before the call (also
\* when those were installed by an earlier successful fit), and the call
\* returns the updated mastery without raising.
C4_FailedRefitKeepsParams ==
    [][(ret'.op = "update_knowledge" /\ ret'.refit \in FailedKinds) =>
          /\ ret'.kp \in DOMAIN trackers
          /\ trackers'[ret'.kp].params = trackers[ret'.kp].params
          /\ ~ret'.raised
          /\ ret'.value = trackers'[ret'.kp].current_mastery_prob]_vars

\* C5 (as claimed): every tracker's four parameters lie strictly inside
\* (0.01, 0.99) in every reachable state.
C5_Original_StrictlyInside ==
    \A kp \in DOMAIN trackers : \A n \in ParamNames :
        PMin < trackers[kp].params[n] /\ trackers[kp].params[n] < PMax

\* C5 (amended): every tracker's four parameters lie in the closed interval
\* [0.01, 0.99] in every reachable state, the end points included: a re-fit
\* can install a parameter equal to 0.01 or 0.99.
C5_ParamsInClosedBox ==
    /\ \A kp \in DOMAIN trackers : \A n \in ParamNames :
           PMin <= trackers[kp].params[n] /\ trackers[kp].params[n] <= PMax
    /\ \A kp \in DOMAIN fitted_params : \A n \in ParamNames :
           PMin <= fitted_params[kp][n] /\ fitted_params[kp][n] <= PMax

\* C5 witness: a successful re-fit has just installed parameters with one
\* coordinate at each end of the box.
C5_Witness ==
    /\ Refitted /\ ret.refit = "success"
    /\ trackers[ret.kp].params.P_S = PMin
    /\ trackers[ret.kp].params.P_L0 = PMax
    /\ fitted_params[ret.kp] = trackers[ret.kp].params

(***************************************************************************)
(* Persistence of the BKT system across a restart                          *)
(***************************************************************************)
\* the dict built by export_learning_data (timestamp and the derived
\* trajectory statistics left out); json.dump writes these values and
\* json.load would read back the same values
ExportLearningData(trk, fp) ==
    [exists |-> TRUE,
     trackers |-> [kp \in DOMAIN trk |->
        [parameters |-> trk[kp].params,
         observations |-> trk[kp].observations,
         mastery_probabilities |-> trk[kp].mastery_probabilities,
         current_mastery |-> trk[kp].current_mastery_prob]],
     fitted_parameters |-> fp]

\* _save_persistent_data: export_learning_data(bkt_file); a failing write is
\* caught and logged
save_persistent_data(write_ok) ==
    /\ bkt_file' = IF write_ok THEN ExportLearningData(trackers, fitted_params)
                              ELSE bkt_file
    /\ ret' = [op |-> "save_persistent_data", raised |-> FALSE]
    /\ UNCHANGED <<svcVars, trackers, fitted_params, mlVars>>

\* start-up in a new process: get_adaptive_bkt_system()
\* builds a fresh AdaptiveBKTSystem and _load_persistent_data loads the ML
\* models only; bkt_data.json is never read
initialize_model ==
    /\ trackers' = << >>
    /\ fitted_params' = << >>
    /\ ret' = [op |-> "initialize_model", raised |-> FALSE]
    /\ UNCHANGED <<svcVars, bkt_file, mlVars>>

\* observations per knowledge point
MaxSysObs == 2

NextSys ==
    \/ \E kp \in KPs, obs \in Observations :
        \E outcome \in OutcomesFor(kp) :
          /\ ObsCount(kp) < MaxSysObs
          /\ update_knowledge(kp, obs, outcome)
    \/ \E write_ok \in BOOLEAN : save_persistent_data(write_ok)
    \/ initialize_model

SpecSys == InitSys /\ [][NextSys]_vars

\* C7: exporting with export_learning_data and then reconstructing the
\* trackers from the exported blob through the start-up load path
\* reproduces, for every knowledge point that had a tracker, the same
\* current mastery probability as before the export.
C7_RoundTripRestoresMastery ==
    (ret.op = "initialize_model" /\ bkt_file.exists) =>
        \A kp \in DOMAIN bkt_file.trackers :
            /\ kp \in DOMAIN trackers
            /\ trackers[kp].current_mastery_prob
                  = bkt_file.trackers[kp].current_mastery

(***************************************************************************)
(* Queries interleaved with updates: predict_performance and               *)
(* get_overall_mastery                                                     *)
(***************************************************************************)
\* observations per knowledge point
MaxQueryObs == 2

\* longest id list passed to get_overall_mastery
MaxIds == 2

\* id lists over the knowledge points, repeats included
IdLists == UNION {[1..n -> KPs] : n \in 0..MaxIds}

NextQuery ==
    \/ \E kp \in KPs, obs \in Observations :
        \E outcome \in OutcomesFor(kp) :
          /\ ObsCount(kp) < MaxQueryObs
          /\ update_knowledge(kp, obs, outcome)
    \/ \E kp \in KPs, difficulty \in Difficulties :
          predict_performance(kp, difficulty)
    \/ \E ids \in IdLists : get_overall_mastery(ids)

SpecQuery == InitSys /\ [][NextQuery]_vars

\* C12: calling predict_performance twice on the same knowledge point with
\* the same difficulty and no update in between returns identical
\* (success probability, mastery probability) pairs, and the call changes
\* neither the mastery, the parameters nor the history of any tracker that
\* exists (a missing tracker is created with its initial mastery).
C12_PredictIsIdempotent ==
    [][ret'.op = "predict_performance" =>
          /\ \A kp \in DOMAIN trackers :
                 kp \in DOMAIN trackers' /\ trackers'[kp] = trackers[kp]
          /\ fitted_params' = fitted_params
          /\ ret'.value[2] = trackers'[ret'.kp].current_mastery_prob
          /\ ret'.again => (ret'.value = ret.value /\ trackers' = trackers)]_vars

\* C12 witness: the same question was asked twice in a row about a tracker
\* that holds two observations, and the success probability was scaled
\* down by the difficulty.
C12_Witness ==
    /\ ret.op = "predict_performance"
    /\ ret.again
    /\ Len(trackers[ret.kp].observations) = 2
    /\ ret.difficulty = Scale
    /\ ret.value[1] < ret.value[2]
    /\ ret.value[2] = trackers[ret.kp].mastery_probabilities[2]

\* the mastery of a requested point as the claim counts it
C15_Mastery(kp) ==
    IF kp \in DOMAIN trackers THEN trackers[kp].current_mastery_prob ELSE 100

\* C15: for any list of knowledge-point ids, get_overall_mastery reports
\* average_mastery as the arithmetic mean (rounded down to the thousandth)
\* of the mastery probabilities of the requested points, a point with no
\* tracker counting as 0.1, well_mastered_count as the number of requested
\* points with mastery > 0.8 and struggling_count as the number with
\* mastery < 0.3, so that the two counts together never exceed
\* total_knowledge_points.  A point listed twice is one requested point.
C15_OverallMastery ==
    ret.op = "get_overall_mastery" =>
        LET requested == Range(ret.ids)
            n   == Cardinality(requested)
            sum == SumOf([k \in requested |-> C15_Mastery(k)], requested)
            r   == ret.value
        IN  /\ n > 0 => /\ n * r.average_mastery <= sum
                        /\ sum < n * (r.average_mastery + 1)
            /\ r.well_mastered_count
                  = Cardinality({k \in requested : C15_Mastery(k) > 800})
            /\ r.struggling_count
                  = Cardinality({k \in requested : C15_Mastery(k) < 300})
            /\ r.well_mastered_count + r.struggling_count
                  <= r.total_knowledge_points
            /\ r.total_knowledge_points = Len(ret.ids)

\* C15 witness: one point mastered above 0.8 and one without a tracker were
\* requested together; one is counted well mastered, the other struggling,
\* and the average lies between the two masteries.
C15_Witness ==
    /\ ret.op = "get_overall_mastery"
    /\ Len(ret.ids) = 2
    /\ \E a \in DOMAIN trackers, b \in KPs \ DOMAIN trackers :
          /\ Range(ret.ids) = {a, b}
          /\ trackers[a].current_mastery_prob > 800
          /\ ret.value.average_mastery
                = (trackers[a].current_mastery_prob + 100) \div 2
    /\ ret.value.well_mastered_count = 1
    /\ ret.value.struggling_count = 1

(***************************************************************************)
(* FeatureEngineer                                                         *)
(***************************************************************************)
\* len(FeatureVector.to_array()) and the k of SelectKBest
NumFeatures == 19
SelectK == 15

\* kinds of label argument y: absent, one distinct value, several
LabelKinds == {"none", "single", "multi"}

\* where a library call inside fit_transform / transform can raise
EngineerFailures == {"none", "scaler", "selector"}

\* mutant: is_fitted is set before the scaler and the selector have run
FitTransformFlagFirst(e, rows, y, fail) ==
    IF rows = 0
    THEN [eng |-> e, raised |-> TRUE, error |-> "empty_features", cols |-> 0]
    ELSE IF fail = "scaler"
    THEN [eng |-> [e EXCEPT !.is_fitted = TRUE],
          raised |-> TRUE, error |-> "scaler_error", cols |-> 0]
    ELSE IF y = "multi" /\ fail = "selector"
    THEN [eng |-> [e EXCEPT !.is_fitted = TRUE, !.scaler_fitted = TRUE],
          raised |-> TRUE, error |-> "selector_error", cols |-> 0]
    ELSE [eng |-> [e EXCEPT !.scaler_fitted = TRUE,
                            !.selector_fitted = (y = "multi") \/ @,
                            !.is_fitted = TRUE, !.fit_returned = TRUE],
          raised |-> FALSE, error |-> "none",
          cols |-> IF y = "multi" THEN SelectK ELSE NumFeatures]

\* fit_transform(features, y) on engineer e (feature_selector is set, as
\* with the default k = 15): the engineer afterwards and the outcome
FitTransform(e, rows, y, fail) ==
    IF rows = 0
    THEN [eng |-> e, raised |-> TRUE, error |-> "empty_features", cols |-> 0]
    ELSE IF fail = "scaler"
    THEN [eng |-> e, raised |-> TRUE, error |-> "scaler_error", cols |-> 0]
    ELSE IF y = "multi" /\ fail = "selector"
    THEN [eng |-> [e EXCEPT !.scaler_fitted = TRUE],
          raised |-> TRUE, error |-> "selector_error", cols |-> 0]
    ELSE [eng |-> [e EXCEPT !.scaler_fitted = TRUE,
                            !.selector_fitted = (y = "multi") \/ @,
                            !.is_fitted = TRUE, !.fit_returned = TRUE],
          raised |-> FALSE, error |-> "none",
          cols |-> IF y = "multi" THEN SelectK ELSE NumFeatures]

\* transform(features) on engineer e: the outcome (e is not changed)
Transform(e, fail) ==
    IF ~e.is_fitted
    THEN [raised |-> TRUE, error |-> "engineer_not_fitted", cols |-> 0]
    ELSE IF fail = "scaler"
    THEN [raised |-> TRUE, error |-> "scaler_error", cols |-> 0]
    ELSE IF ~e.selector_fitted
    THEN [raised |-> TRUE, error |-> "selector_not_fitted", cols |-> 0]
    ELSE IF fail = "selector"
    THEN [raised |-> TRUE, error |-> "selector_error", cols |-> 0]
    ELSE [raised |-> FALSE, error |-> "none", cols |-> SelectK]

\* rows passed to a direct fit_transform call
MaxRows == 1

fit_transform(pn, rows, y, fail) ==
    LET r == FitTransform(predictors[pn], rows, y, fail)
    IN  /\ predictors' = [predictors EXCEPT ![pn] = r.eng]
        /\ ret' = [op |-> "fit_transform", pn |-> pn, raised |-> r.raised,
                   error |-> r.error, cols |-> r.cols, rows |-> rows]
        /\ UNCHANGED <<svcVars, bktVars, training_data, cognitive_state>>

transform(pn, fail) ==
    LET r == Transform(predictors[pn], fail)
    IN  /\ ret' = [op |-> "transform", pn |-> pn, raised |-> r.raised,
                   error |-> r.error, cols |-> r.cols]
        /\ UNCHANGED <<svcVars, bktVars, mlVars>>

(***************************************************************************)
(* CognitiveLoadPredictor, ConfusionPredictor, MLStatePredictor            *)
(***************************************************************************)
LoadLevels == {"low", "medium", "high"}

\* buffered samples (len(training_data['features']))
NumSamples(td) == td.low + td.medium + td.high

\* the label argument the engineers receive from train(): the encoded
\* labels (resp. the scores) hold one distinct value or several
LabelKindOf(td) ==
    IF Cardinality({l \in LoadLevels : td[l] > 0}) > 1 THEN "multi" ELSE "single"

\* behavioural signals read by the rule-based estimators; rates are in
\* fixed point, edit_frequency and help_frequency are counts per minute,
\* avg_pause_duration is in seconds
Features ==
    [edit_frequency : {0, 20}, error_rate : {0, 900},
     avg_pause_duration : {5}, help_frequency : {0},
     code_length_variance : {0}]

\* _rule_based_prediction: score, label and confidence
RuleCognitiveScore(f) ==
    30 * f.edit_frequency + (4 * f.error_rate) \div 10
        + (IF 300 - 10 * f.avg_pause_duration > 0
           THEN 300 - 10 * f.avg_pause_duration ELSE 0)

Min(a, b) == IF a < b THEN a ELSE b

\* mutant: a score equal to a threshold already counts for the higher level
RuleBasedPredictionInclusive(f) ==
    LET score == RuleCognitiveScore(f)
    IN  IF score >= 700
        THEN [path |-> "rule", prediction |-> "high",
              confidence |-> Min(score, 900)]
        ELSE IF score >= 400
        THEN [path |-> "rule", prediction |-> "medium", confidence |-> 700]
        ELSE [path |-> "rule", prediction |-> "low",
              confidence |-> Min(Scale - score, 900)]

RuleBasedPrediction(f) ==
    LET score == RuleCognitiveScore(f)
    IN  IF score > 700
        THEN [path |-> "rule", prediction |-> "high",
              confidence |-> Min(score, 900)]
        ELSE IF score > 400
        THEN [path |-> "rule", prediction |-> "medium", confidence |-> 700]
        ELSE [path |-> "rule", prediction |-> "low",
              confidence |-> Min(Scale - score, 900)]

\* mutant: the rule-based confusion result carries confidence 0.8
RuleBasedConfusionPredictionConfident(f) ==
    LET raw == 80 * f.help_frequency + (3 * f.error_rate) \div 10
                 + (3 * f.code_length_variance) \div 10
    IN  [path |-> "rule",
         prediction |-> IF raw > Scale THEN Scale ELSE IF raw < 0 THEN 0 ELSE raw,
         confidence |-> 800]

\* _rule_based_confusion_prediction
RuleBasedConfusionPrediction(f) ==
    LET raw == 80 * f.help_frequency + (3 * f.error_rate) \div 10
                 + (3 * f.code_length_variance) \div 10
    IN  [path |-> "rule",
         prediction |-> IF raw > Scale THEN Scale ELSE IF raw < 0 THEN 0 ELSE raw,
         confidence |-> 600]

\* what a fitted random forest can answer at prediction time
CogModelOutputs ==
    [path : {"model"}, prediction : {"low", "high"}, confidence : {950}]

ConfModelOutputs ==
    [path : {"model"}, prediction : {701}, confidence : {950}]

\* where a call inside predict() can raise at prediction time
PredictFailures == {"none", "selector", "model"}

\* the model answers and the failures that matter for predictor pn in its
\* current state: an untrained predictor consults neither
OutputsFor(pn, outs) ==
    IF predictors[pn].is_trained THEN outs ELSE {CHOOSE o \in outs : TRUE}

PredictFailuresFor(pn) ==
    IF predictors[pn].is_trained THEN PredictFailures ELSE {"none"}

EngFail(fail) == IF fail \in EngineerFailures THEN fail ELSE "none"

\* mutant: a failure at prediction time is not caught
PredictUncaught(pred, rule, out, fail) ==
    IF ~pred.is_trained
    THEN [raised |-> FALSE, result |-> rule]
    ELSE IF Transform(pred, EngFail(fail)).raised \/ fail = "model"
    THEN [raised |-> TRUE, result |-> [path |-> "none"]]
    ELSE [raised |-> FALSE, result |-> out]

\* CognitiveLoadPredictor.predict / ConfusionPredictor.predict: rule is
\* the rule-based result for the feature, out the model's answer
Predict(pred, rule, out, fail) ==
    IF ~pred.is_trained
    THEN [raised |-> FALSE, result |-> rule]
    ELSE IF Transform(pred, EngFail(fail)).raised \/ fail = "model"
    THEN [raised |-> FALSE, result |-> rule]
    ELSE [raised |-> FALSE, result |-> out]

\* predict_states(feature): the returned dict and whether the call raised
PredictStates(preds, f, cogOut, confOut, cogFail, confFail) ==
    LET c == Predict(preds["cognitive_load"], RuleBasedPrediction(f),
                     cogOut, cogFail)
        u == Predict(preds["confusion"], RuleBasedConfusionPrediction(f),
                     confOut, confFail)
    IN  IF c.raised \/ u.raised
        THEN [raised |-> TRUE, results |-> << >>]
        ELSE [raised |-> FALSE,
              results |-> [cognitive_load |-> c.result, confusion |-> u.result]]

predict_states(f, cogOut, confOut, cogFail, confFail) ==
    LET r == PredictStates(predictors, f, cogOut, confOut, cogFail, confFail)
    IN  /\ ret' = [op |-> "predict_states", raised |-> r.raised,
                   results |-> r.results, feature |-> f,
                   cog_fail |-> cogFail, conf_fail |-> confFail]
        /\ UNCHANGED <<svcVars, bktVars, mlVars>>

\* where a call inside train() can raise
TrainFailures == {"none", "scaler", "selector", "model_fit", "evaluate"}

\* CognitiveLoadPredictor.train / ConfusionPredictor.train on the buffer:
\* fit_transform, model.fit, is_trained = True, then the evaluation
\* (cross_val_score resp. predict + mean_squared_error); any exception is
\* logged and re-raised
Train(pred, td, fail) ==
    LET ft == FitTransform(pred, NumSamples(td), LabelKindOf(td), EngFail(fail))
    IN  IF ft.raised
        THEN [pred |-> ft.eng, raised |-> TRUE]
        ELSE IF fail = "model_fit"
        THEN [pred |-> ft.eng, raised |-> TRUE]
        ELSE [pred |-> [ft.eng EXCEPT !.is_trained = TRUE],
              raised |-> (fail = "evaluate")]

\* smallest buffer train_models trains on
MinTrainSamples == 5

\* mutant: only an empty buffer is too small to train on
TooFewSamplesOnlyEmpty(td) == NumSamples(td) < 1

\* the guard of train_models
TooFewSamples(td) == NumSamples(td) < MinTrainSamples

\* train_models: skipped below MinTrainSamples; otherwise trains the
\* cognitive-load predictor, then the confusion predictor, inside one try:
\* the predictors afterwards, the keys of the returned dict
TrainModels(preds, td, cogFail, confFail) ==
    LET c == Train(preds["cognitive_load"], td, cogFail)
        u == Train(preds["confusion"], td, confFail)
    IN  IF TooFewSamples(td)
        THEN [predictors |-> preds, results |-> {}, skipped |-> TRUE]
        ELSE IF c.raised
        THEN [predictors |-> [preds EXCEPT !["cognitive_load"] = c.pred],
              results |-> {}, skipped |-> FALSE]
        ELSE [predictors |-> [preds EXCEPT !["cognitive_load"] = c.pred,
                                           !["confusion"] = u.pred],
              results |-> IF u.raised THEN {"cognitive_load"}
                                      ELSE {"cognitive_load", "confusion"},
              skipped |-> FALSE]

train_models(cogFail, confFail) ==
    LET r == TrainModels(predictors, training_data, cogFail, confFail)
    IN  /\ predictors' = r.predictors
        /\ ret' = [op |-> "train_models", raised |-> FALSE,
                   results |-> r.results, skipped |-> r.skipped]
        /\ UNCHANGED <<svcVars, bktVars, training_data, cognitive_state>>

\* add_training_sample as called by _add_ml_training_sample: one more
\* sample carrying the inferred cognitive-load label
add_training_sample(label) ==
    /\ training_data' = [training_data EXCEPT ![label] = @ + 1]
    /\ ret' = [op |-> "add_training_sample", raised |-> FALSE]
    /\ UNCHANGED <<svcVars, bktVars, predictors, cognitive_state>>

\* samples buffered
MaxSamples == 5

NextML ==
    \/ \E l \in LoadLevels :
          /\ NumSamples(training_data) < MaxSamples
          /\ add_training_sample(l)
    \/ \E cf \in TrainFailures, uf \in TrainFailures : train_models(cf, uf)
    \/ \E f \in Features,
          co \in OutputsFor("cognitive_load", CogModelOutputs),
          uo \in OutputsFor("confusion", ConfModelOutputs),
          cf \in PredictFailuresFor("cognitive_load"),
          uf \in PredictFailuresFor("confusion") :
          predict_states(f, co, uo, cf, uf)
    \/ \E pn \in PredNames, rows \in 0..MaxRows, y \in LabelKinds,
          fail \in EngineerFailures : fit_transform(pn, rows, y, fail)
    \/ \E pn \in PredNames, fail \in EngineerFailures : transform(pn, fail)

InitML ==
    /\ trackers = << >>
    /\ fitted_params = << >>
    /\ bkt_file = NoFile
    /\ MLStart
    /\ ServiceStart
    /\ ret = [op |-> "init", raised |-> FALSE]

SpecML == InitML /\ [][NextML]_vars

\* the rule-based result predict() falls back to, per predictor
RuleResult(pn, f) ==
    IF pn = "cognitive_load" THEN RuleBasedPrediction(f)
                             ELSE RuleBasedConfusionPrediction(f)

\* the prediction-time failure recorded for predictor pn by the last call
FailOf(pn) == IF pn = "cognitive_load" THEN ret.cog_fail ELSE ret.conf_fail

\* C9: predict_states never raises and always returns both a
\* 'cognitive_load' and a 'confusion' result, whether a predictor is
\* untrained, trained, or trained with a feature transform or model call
\* that fails at prediction time; in the untrained and the failing case the
\* rule-based result is returned.
C9_PredictStatesTotal ==
    ret.op = "predict_states" =>
        /\ ~ret.raised
        /\ DOMAIN ret.results = PredNames
        /\ \A pn \in PredNames :
              /\ ret.results[pn].path \in {"rule", "model"}
              /\ (\/ ~predictors[pn].is_trained
                  \/ FailOf(pn) # "none"
                  \/ Transform(predictors[pn], "none").raised)
                    => ret.results[pn] = RuleResult(pn, ret.feature)

\* C9 witness: the trained cognitive-load predictor's model call failed at
\* prediction time and the rule-based result came back, next to a model
\* answer from the trained confusion predictor.
C9_Witness ==
    /\ ret.op = "predict_states"
    /\ predictors["cognitive_load"].is_trained
    /\ predictors["confusion"].is_trained
    /\ ret.cog_fail = "model"
    /\ ret.results["cognitive_load"].path = "rule"
    /\ ret.results["confusion"].path = "model"

C16_TooFewSamplesSkipsTraining ==
    [][(ret'.op = "train_models" /\ NumSamples(training_data) < MinTrainSamples) =>
          /\ ret'.results = {}
          /\ ~ret'.raised
          /\ \A pn \in PredNames :
                 predictors'[pn].is_trained = predictors[pn].is_trained
          /\ predictors' = predictors
          /\ training_data' = training_data]_vars

\* C16 witness: train_models returned the empty result on a buffer of four
\* samples carrying two different labels, with the cognitive-load engineer
\* already fitted by a direct call and neither predictor trained.
C16_Witness ==
    /\ ret.op = "train_models"
    /\ ret.skipped /\ ret.results = {}
    /\ NumSamples(training_data) = MinTrainSamples - 1
    /\ LabelKindOf(training_data) = "multi"
    /\ predictors["cognitive_load"].is_fitted
    /\ \A pn \in PredNames : ~predictors[pn].is_trained

(***************************************************************************)
(* Fusion of ML predictions into the learner model                         *)
(***************************************************************************)
\* the confidence a prediction must exceed to be applied
ConfidenceGate == 700

\* mutant: a confidence equal to the gate passes
PassesGateInclusive(confidence) == confidence >= ConfidenceGate

PassesGate(confidence) == confidence > ConfidenceGate

\* the discrete confusion level of a score
ConfusionLevelOf(score) ==
    IF score > 700 THEN "severe"
    ELSE IF score > 500 THEN "moderate"
    ELSE IF score > 200 THEN "slight"
    ELSE "none"

\* statements of _integrate_ml_predictions at which an exception can
\* surface (it is caught and logged by the enclosing try)
IntegrateFailures ==
    {"none", "get_model", "set_load_confidence", "set_confusion_score"}

\* the cognitive-load half of _integrate_ml_predictions
IntegrateCognitive(cs, preds, fail) ==
    IF "cognitive_load" \in DOMAIN preds
          /\ PassesGate(preds["cognitive_load"].confidence)
    THEN IF fail = "set_load_confidence"
         THEN [cs EXCEPT !.cognitive_load = preds["cognitive_load"].prediction]
         ELSE [cs EXCEPT !.cognitive_load = preds["cognitive_load"].prediction,
                         !.load_confidence = preds["cognitive_load"].confidence]
    ELSE cs

\* the confusion half of _integrate_ml_predictions
IntegrateConfusion(cs, preds, fail) ==
    IF "confusion" \in DOMAIN preds /\ PassesGate(preds["confusion"].confidence)
          /\ fail # "set_confusion_score"
    THEN [cs EXCEPT !.confusion_score = preds["confusion"].prediction,
                    !.confusion_level =
                        ConfusionLevelOf(preds["confusion"].prediction)]
    ELSE cs

\* whether the exception, if any, surfaces in the cognitive-load half
AbortsInCognitive(preds, fail) ==
    /\ fail = "set_load_confidence"
    /\ "cognitive_load" \in DOMAIN preds
    /\ PassesGate(preds["cognitive_load"].confidence)

\* _integrate_ml_predictions: the learner model's cognitive_state afterwards
IntegrateMLPredictions(cs, preds, fail) ==
    IF DOMAIN preds = {} \/ fail = "get_model"
    THEN cs
    ELSE IF AbortsInCognitive(preds, fail)
    THEN IntegrateCognitive(cs, preds, fail)
    ELSE IntegrateConfusion(IntegrateCognitive(cs, preds, fail), preds, fail)

integrate_ml_predictions(preds, fail) ==
    /\ cognitive_state' = IntegrateMLPredictions(cognitive_state, preds, fail)
    /\ ret' = [op |-> "integrate_ml_predictions", raised |-> FALSE,
               preds |-> preds, fail |-> fail]
    /\ UNCHANGED <<svcVars, bktVars, predictors, training_data>>

\* predictions handed to the fusion step
CogPredictions == [prediction : LoadLevels, confidence : {700, 701}]

ConfPredictions ==
    [prediction : {200, 201, 501, 701}, confidence : {600, 701}]

PredictionDicts ==
    {<< >>}
      \cup {[k \in {"cognitive_load"} |-> c] : c \in CogPredictions}
      \cup {[k \in {"confusion"} |-> u] : u \in ConfPredictions}
      \cup {[k \in PredNames |-> IF k = "cognitive_load" THEN c ELSE u] :
               c \in CogPredictions, u \in ConfPredictions}

InitFusion ==
    /\ trackers = << >>
    /\ fitted_params = << >>
    /\ bkt_file = NoFile
    /\ predictors = [p \in PredNames |-> NewPredictor]
    /\ training_data = EmptyTrainingData
    /\ \E l \in LoadLevels :
          cognitive_state = [DefaultCognitiveState EXCEPT !.cognitive_load = l]
    /\ ServiceStart
    /\ ret = [op |-> "init", raised |-> FALSE]

NextFusion ==
    \E preds \in PredictionDicts, fail \in IntegrateFailures :
        integrate_ml_predictions(preds, fail)

SpecFusion == InitFusion /\ [][NextFusion]_vars

HasGated(preds, k) == k \in DOMAIN preds /\ preds[k].confidence > ConfidenceGate

\* C8: _integrate_ml_predictions overwrites cognitive_load (resp.
\* confusion_score and confusion_level) only when the corresponding
\* prediction's confidence is strictly greater than 0.7, and then with the
\* predicted value; when the confidence is 0.7 or lower the fields keep
\* exactly the values they had before the call.
C8_ConfidenceGate ==
    [][ret'.op = "integrate_ml_predictions" =>
          LET preds == ret'.preds IN
          /\ ~HasGated(preds, "cognitive_load") =>
                cognitive_state'.cognitive_load = cognitive_state.cognitive_load
          /\ ~HasGated(preds, "confusion") =>
                /\ cognitive_state'.confusion_score = cognitive_state.confusion_score
                /\ cognitive_state'.confusion_level = cognitive_state.confusion_level
          /\ (HasGated(preds, "cognitive_load") /\ ret'.fail = "none") =>
                cognitive_state'.cognitive_load = preds["cognitive_load"].prediction
          /\ (HasGated(preds, "confusion") /\ ret'.fail = "none") =>
                /\ cognitive_state'.confusion_score = preds["confusion"].prediction
                /\ cognitive_state'.confusion_level
                      = ConfusionLevelOf(preds["confusion"].prediction)]_vars

\* C8 witness: a cognitive-load prediction with confidence exactly 0.7 was
\* not applied while a confusion prediction with confidence above 0.7 was.
C8_Witness ==
    /\ ret.op = "integrate_ml_predictions"
    /\ DOMAIN ret.preds = PredNames
    /\ ret.preds["cognitive_load"].confidence = ConfidenceGate
    /\ ret.preds["cognitive_load"].prediction # cognitive_state.cognitive_load
    /\ ret.preds["confusion"].confidence > ConfidenceGate
    /\ cognitive_state.confusion_score = ret.preds["confusion"].prediction
    /\ cognitive_state.confusion_level = "severe"

(***************************************************************************)
(* An untrained cognitive-load predictor asked for predictions             *)
(***************************************************************************)
\* feature vectors shown to the untrained predictors: scores on both sides
\* of, and exactly at, the thresholds 0.4 and 0.7
RuleFeatures ==
    [edit_frequency : {0, 5, 10, 20},
     error_rate : {0, 250, 500, 900, Scale},
     avg_pause_duration : {0, 2, 5, 15, 30, 60},
     help_frequency : {0}, code_length_variance : {0}]

\* predict_states on predictors that were constructed and never trained
NextRule ==
    \E f \in RuleFeatures,
       co \in OutputsFor("cognitive_load", CogModelOutputs),
       uo \in OutputsFor("confusion", ConfModelOutputs) :
        predict_states(f, co, uo, "none", "none")

SpecRule == InitML /\ [][NextRule]_vars

\* the score and the level the rule assigns, written out term by term:
\* 0.3 * edit_frequency / 10, 0.4 * error_rate and
\* 0.3 * max(0, 1 - avg_pause_duration / 30), in thousandths
C11_Score(f) ==
    LET edits  == (3 * f.edit_frequency * Scale) \div 100
        errors == (4 * f.error_rate) \div 10
        calm   == IF f.avg_pause_duration < 30
                  THEN (3 * (30 - f.avg_pause_duration) * Scale) \div 300
                  ELSE 0
    IN  edits + errors + calm

C11_Level(f) ==
    IF C11_Score(f) > 700 THEN "high"
    ELSE IF C11_Score(f) > 400 THEN "medium"
    ELSE "low"

\* C11: with an untrained cognitive-load predictor (zero training samples),
\* predict returns for every feature vector the rule-based result: score =
\* 0.3*edit_frequency/10 + 0.4*error_rate + 0.3*max(0, 1 -
\* avg_pause_duration/30), 'high' when score > 0.7, 'medium' when
\* 0.4 < score <= 0.7 and 'low' otherwise; error_rate = 0.9,
\* edit_frequency = 20, avg_pause_duration = 2 yields 'high'.
C11_UntrainedUsesRule ==
    (ret.op = "predict_states" /\ ~predictors["cognitive_load"].is_trained
        /\ NumSamples(training_data) = 0) =>
        /\ ~ret.raised
        /\ ret.results["cognitive_load"].path = "rule"
        /\ ret.results["cognitive_load"].prediction = C11_Level(ret.feature)
        /\ (ret.feature.error_rate = 900 /\ ret.feature.edit_frequency = 20
              /\ ret.feature.avg_pause_duration = 2) =>
                 ret.results["cognitive_load"].prediction = "high"

\* C11 witness: the untrained predictor was shown a feature vector whose
\* score is exactly 0.7 and answered 'medium'.
C11_Witness ==
    /\ ret.op = "predict_states"
    /\ ~predictors["cognitive_load"].is_trained
    /\ NumSamples(training_data) = 0
    /\ C11_Score(ret.feature) = 700
    /\ ret.feature.edit_frequency = 10
    /\ ret.results["cognitive_load"].prediction = "medium"

(***************************************************************************)
(* BKTParameterEstimator.fit_parameters called on short histories          *)
(***************************************************************************)
\* the method argument: the supported one and another
Methods == {"mle", "em"}

\* longest observation list handed to the estimator
MaxFitObs == 9

FitKP == "css_grid"

\* observation lists: n answers, alternately correct and incorrect
FitObservationLists ==
    {[i \in 1..n |-> [correct |-> (i % 2 = 1)]] : n \in 0..MaxFitObs}

\* whether the call gets as far as the optimizer
ReachesOptimizer(observations, method) ==
    observations # <<>> /\ method = "mle"

\* fit_parameters(kp, observations, method): an empty list returns the
\* defaults, an unsupported method raises ValueError, 'mle' runs _fit_mle
fit_parameters(kp, observations, method, outcome) ==
    LET fit    == FitParameters(fitted_params, kp, observations, outcome)
        raises == observations # <<>> /\ method # "mle"
    IN  /\ outcome \in (IF ReachesOptimizer(observations, method)
                        THEN FitOutcomes ELSE {NoFit})
        /\ fitted_params' = IF raises THEN fitted_params ELSE fit[2]
        /\ ret' = [op |-> "fit_parameters", kp |-> kp,
                   count |-> Len(observations), method |-> method,
                   fit |-> outcome.kind, raised |-> raises,
                   value |-> IF raises THEN << >> ELSE fit[1]]
        /\ UNCHANGED <<svcVars, trackers, bkt_file, mlVars>>

NextFit ==
    \E observations \in FitObservationLists, method \in Methods :
        \E outcome \in (IF ReachesOptimizer(observations, method)
                        THEN FitOutcomes ELSE {NoFit}) :
            fit_parameters(FitKP, observations, method, outcome)

SpecFit == InitSys /\ [][NextFit]_vars

\* C14: fit_parameters called with fewer than 10 observations returns the
\* default parameters (P_L0 = 0.1, P_T = 0.3, P_G = 0.1, P_S = 0.1) and
\* does not raise.
C14_FewObservationsGiveDefaults ==
    (ret.op = "fit_parameters" /\ ret.count < min_observations_for_fitting) =>
        /\ ~ret.raised
        /\ ret.value = DefaultParams

(***************************************************************************)
(* SingleUserLearningModel.update_from_performance and the sample buffer   *)
(***************************************************************************)
\* TrainingScheduler's default max_buffer_size; no TrainingScheduler is
\* constructed and trim_buffer is called from nowhere
max_buffer_size == 500

\* buffer size from which _add_ml_training_sample retrains on every call
RetrainThreshold == 20

\* the cognitive-load label _add_ml_training_sample infers
InferredLabel(perf) ==
    IF perf.success /\ perf.difficulty > 700 THEN "low"
    ELSE IF ~perf.success /\ perf.difficulty > 500 THEN "high"
    ELSE "medium"

\* _add_ml_training_sample: the buffer and the predictors afterwards
AddMLTrainingSample(preds, td, perf, cogFail, confFail) ==
    LET td1 == [td EXCEPT ![InferredLabel(perf)] = @ + 1]
    IN  [training_data |-> td1,
         predictors |->
             IF NumSamples(td1) >= RetrainThreshold
             THEN TrainModels(preds, td1, cogFail, confFail).predictors
             ELSE preds]

\* update_from_performance(kp, perf): the base-model update (when it raises
\* the enclosing try logs and nothing else runs), update_knowledge,
\* _add_ml_training_sample; nothing is returned and nothing is raised
update_from_performance(kp, perf, base_ok, outcome, cogFail, confFail) ==
    LET uk == UpdateKnowledge(trackers, fitted_params, kp,
                              [correct |-> perf.success], outcome)
        ml == AddMLTrainingSample(predictors, training_data, perf,
                                  cogFail, confFail)
    IN  /\ IF base_ok
           THEN /\ trackers' = uk.trackers
                /\ fitted_params' = uk.fitted_params
                /\ training_data' = ml.training_data
                /\ predictors' = ml.predictors
           ELSE UNCHANGED <<trackers, fitted_params, training_data, predictors>>
        /\ ret' = [op |-> "update_from_performance", kp |-> kp,
                   raised |-> FALSE, applied |-> base_ok]
        /\ UNCHANGED <<svcVars, bkt_file, cognitive_state>>

\* calls followed
MaxPerfCalls == 501

PerfKP == "css_grid"

\* the performance record of the call made when n samples are buffered: a
\* hard exercise, failed on every third attempt
PerformanceAt(n) == [success |-> (n % 3 # 2), difficulty |-> 800]

\* the optimizer outcomes followed when a re-fit falls due: it does not
\* converge
PerfOutcomesFor(kp) ==
    IF RefitDue(ObsCount(kp) + 1) THEN {[kind |-> "not_converged"]} ELSE {NoFit}

\* the training failures that matter for the call: none below the
\* retraining threshold
PerfTrainFailures ==
    IF NumSamples(training_data) + 1 >= RetrainThreshold
    THEN TrainFailures ELSE {"none"}

NextPerf ==
    \E base_ok \in BOOLEAN, outcome \in PerfOutcomesFor(PerfKP),
       cf \in PerfTrainFailures, uf \in PerfTrainFailures :
        /\ NumSamples(training_data) < MaxPerfCalls
        /\ update_from_performance(PerfKP,
               PerformanceAt(NumSamples(training_data)),
               base_ok, outcome, cf, uf)

SpecPerf == InitSys /\ [][NextPerf]_vars

\* C17: after any sequence of update_from_performance calls (each adding
\* one training sample and possibly retraining), the ML training sample
\* buffer never holds more than max_buffer_size (500) samples.
C17_BufferBounded ==
    NumSamples(training_data) <= max_buffer_size

(***************************************************************************)
(* QuizGenerator: difficulty and question-type distributions, sampling     *)
(*                                                                         *)
(* Weights are carried in tenths (0.7 is 7).  A normalised distribution is *)
(* kept exact: bucket k has probability num[k] / den.                      *)
(***************************************************************************)
\* iteration order of the two dicts
DifficultyOrder == <<"easy", "medium", "hard">>

QuestionTypeOrder ==
    <<"fill_in_blank", "error_correction", "code_implementation",
      "concept_explanation">>

\* average knowledge level of the summary, in tenths of a level: below,
\* at and above the thresholds 2.0 and 3.5
KnowledgeLevels == {15, 20, 30, 35, 40}

ConfusionLevels == {"none", "slight", "moderate", "severe"}

\* main_preference of the summary; "none" when the profile has none
LearningPreferences ==
    {"code_examples", "text_explanations", "analogies", "visual_aids",
     "interactive", "none"}

Max(a, b) == IF a > b THEN a ELSE b

\* {k: v / total} with total = sum(values), or the uniform distribution
\* when the total is 0
Normalise(order, weights) ==
    LET total == SumOf(weights, Range(order))
    IN  IF total = 0
        THEN [order |-> order, num |-> [k \in Range(order) |-> 1],
              den |-> Len(order)]
        ELSE [order |-> order, num |-> weights, den |-> total]

\* the base difficulty weights by knowledge level
BaseDifficulty(knowledge_level) ==
    IF knowledge_level < 20
    THEN [easy |-> 7, medium |-> 3, hard |-> 0]
    ELSE IF knowledge_level < 35
    THEN [easy |-> 4, medium |-> 5, hard |-> 1]
    ELSE [easy |-> 2, medium |-> 5, hard |-> 3]

\* mutant: only severe confusion or high load lowers the difficulty
NeedsEasierSevereOnly(confusion_level, cognitive_load) ==
    confusion_level = "severe" \/ cognitive_load = "high"

\* confusion_level in ["moderate", "severe"] or cognitive_load == "high"
NeedsEasier(confusion_level, cognitive_load) ==
    confusion_level \in {"moderate", "severe"} \/ cognitive_load = "high"

\* mutant: the hard weight is lowered without the floor at 0
DetermineDifficultyDistributionNoFloor(knowledge_level, confusion_level, cognitive_load) ==
    LET base == BaseDifficulty(knowledge_level)
        adjusted ==
            IF NeedsEasier(confusion_level, cognitive_load)
            THEN [base EXCEPT !.easy = @ + 2, !.hard = @ - 2]
            ELSE base
    IN  Normalise(DifficultyOrder, adjusted)

\* _determine_difficulty_distribution
DetermineDifficultyDistribution(knowledge_level, confusion_level, cognitive_load) ==
    LET base == BaseDifficulty(knowledge_level)
        adjusted ==
            IF NeedsEasier(confusion_level, cognitive_load)
            THEN [base EXCEPT !.easy = @ + 2, !.hard = Max(0, @ - 2)]
            ELSE base
    IN  Normalise(DifficultyOrder, adjusted)

\* _determine_question_type_distribution: preference shift, knowledge-level
\* shift, then every weight floored at 0 and normalised
DetermineQuestionTypeDistribution(main_preference, knowledge_level) ==
    LET base == [fill_in_blank |-> 4, error_correction |-> 3,
                 code_implementation |-> 2, concept_explanation |-> 1]
        pref ==
            IF main_preference = "code_examples"
            THEN [base EXCEPT !.fill_in_blank = @ + 2,
                              !.code_implementation = @ + 1]
            ELSE IF main_preference = "text_explanations"
            THEN [base EXCEPT !.concept_explanation = @ + 2]
            ELSE base
        level ==
            IF knowledge_level < 20
            THEN [pref EXCEPT !.fill_in_blank = @ + 2,
                              !.code_implementation = @ - 1]
            ELSE IF knowledge_level > 35
            THEN [pref EXCEPT !.code_implementation = @ + 2,
                              !.fill_in_blank = @ - 1]
            ELSE pref
    IN  Normalise(QuestionTypeOrder,
                  [k \in DOMAIN level |-> Max(0, level[k])])

\* resolution of random.random(): the draw is rand / DrawGrid with
\* rand in 0 .. DrawGrid - 1
DrawGrid == 20

Draws == 0..(DrawGrid - 1)

\* the loop of _select_difficulty / _select_question_type from bucket i on,
\* with the running sum so far: the first bucket with rand <= cumulative
RECURSIVE SelectFrom(_, _, _, _, _)
SelectFrom(dist, rand, i, cumulative, default) ==
    IF i > Len(dist.order)
    THEN default
    ELSE LET c == cumulative + dist.num[dist.order[i]]
         IN  IF rand * dist.den <= c * DrawGrid
             THEN dist.order[i]
             ELSE SelectFrom(dist, rand, i + 1, c, default)

SelectDifficulty(dist, rand) == SelectFrom(dist, rand, 1, 0, "medium")

SelectQuestionType(dist, rand) == SelectFrom(dist, rand, 1, 0, "fill_in_blank")

\* generate_adaptive_quiz choosing a difficulty: the distribution built
\* from the summary, then one draw
select_difficulty(knowledge_level, confusion_level, cognitive_load, rand) ==
    LET dist == DetermineDifficultyDistribution(knowledge_level,
                    confusion_level, cognitive_load)
    IN  /\ ret' = [op |-> "select_difficulty", raised |-> FALSE,
                   knowledge_level |-> knowledge_level,
                   confusion_level |-> confusion_level,
                   cognitive_load |-> cognitive_load,
                   distribution |-> dist, rand |-> rand,
                   selected |-> SelectDifficulty(dist, rand),
                   default |-> "medium"]
        /\ UNCHANGED <<svcVars, bktVars, mlVars>>

\* generate_adaptive_quiz choosing a question type
select_question_type(main_preference, knowledge_level, rand) ==
    LET dist == DetermineQuestionTypeDistribution(main_preference,
                    knowledge_level)
    IN  /\ ret' = [op |-> "select_question_type", raised |-> FALSE,
                   distribution |-> dist, rand |-> rand,
                   selected |-> SelectQuestionType(dist, rand),
                   default |-> "fill_in_blank"]
        /\ UNCHANGED <<svcVars, bktVars, mlVars>>

NextQuiz ==
    \/ \E kl \in KnowledgeLevels, conf \in ConfusionLevels,
          load \in LoadLevels, rand \in Draws :
          select_difficulty(kl, conf, load, rand)
    \/ \E pref \in LearningPreferences, kl \in KnowledgeLevels,
          rand \in Draws :
          select_question_type(pref, kl, rand)

SpecQuiz == InitML /\ [][NextQuiz]_vars

Sampled == ret.op \in {"select_difficulty", "select_question_type"}

\* C18: for every combination of knowledge level, confusion level,
\* cognitive load and learning preference, the difficulty distribution and
\* the question-type distribution returned for sampling each have only
\* non-negative entries that sum to 1.
C18_DistributionsNormalised ==
    Sampled =>
        LET dist == ret.distribution IN
        /\ dist.den > 0
        /\ DOMAIN dist.num = Range(dist.order)
        /\ \A k \in DOMAIN dist.num : dist.num[k] >= 0
        /\ SumOf(dist.num, DOMAIN dist.num) = dist.den

\* C18 witness: a beginner in severe confusion: the hard weight was floored
\* at 0 and the distribution is 0.75 / 0.25 / 0.
C18_Witness ==
    /\ ret.op = "select_difficulty"
    /\ ret.distribution.den = 12
    /\ ret.distribution.num = [easy |-> 9, medium |-> 3, hard |-> 0]

\* the first bucket from i on whose running cumulative probability strictly
\* exceeds the draw
RECURSIVE C19_FirstExceeding(_, _, _, _, _)
C19_FirstExceeding(dist, rand, i, cumulative, default) ==
    IF i > Len(dist.order)
    THEN default
    ELSE LET c == cumulative + dist.num[dist.order[i]]
         IN  IF rand * dist.den < c * DrawGrid
             THEN dist.order[i]
             ELSE C19_FirstExceeding(dist, rand, i + 1, c, default)

\* C19: _select_difficulty and _select_question_type return the first
\* bucket, in the distribution's iteration order, whose running cumulative
\* probability strictly exceeds the uniform draw in [0,1), and the default
\* bucket (MEDIUM, resp. FILL_IN_BLANK) if none does; hence a bucket with
\* probability 0 is never selected, and {easy: 0.7, medium: 0.3, hard: 0.0}
\* never yields hard.
C19_FirstBucketExceedingDraw ==
    Sampled =>
        /\ ret.selected
             = C19_FirstExceeding(ret.distribution, ret.rand, 1, 0, ret.default)
        /\ ret.distribution.num[ret.selected] > 0
        /\ (ret.distribution.num = [easy |-> 7, medium |-> 3, hard |-> 0]
              /\ ret.distribution.den = 10) => ret.selected # "hard"

(***************************************************************************)
(* PromptGenerator._generate_teaching_strategy                             *)
(***************************************************************************)
FrustrationLevels == {"none", "low", "medium", "high"}

FocusLevels == {"low", "medium", "high"}

\* the fields of a learner summary that _generate_teaching_strategy reads
Summaries ==
    [cognitive_load : LoadLevels, confusion_level : ConfusionLevels,
     frustration_level : FrustrationLevels, focus_level : FocusLevels,
     main_preference : LearningPreferences]

\* explanation depth: the paragraph chosen for "解释复杂度"
ExplanationStrategy(summary) ==
    IF summary.cognitive_load = "high"
          \/ summary.confusion_level \in {"severe", "moderate"}
    THEN "simple"
    ELSE IF summary.cognitive_load = "medium"
               \/ summary.confusion_level = "slight"
    THEN "moderate"
    ELSE "technical"

\* mutant: the encouragement is chosen from the confusion level
FeedbackStrategyByConfusion(summary) ==
    IF summary.confusion_level \in {"severe", "moderate"}
    THEN "encouraging" ELSE "direct"

\* encouragement intensity: the paragraph chosen for "反馈方式"
FeedbackStrategy(summary) ==
    IF summary.frustration_level \in {"high", "medium"}
    THEN "encouraging" ELSE "direct"

\* content length: the paragraph chosen for "内容长度"
ContentStrategy(summary) ==
    IF summary.focus_level = "low" THEN "short"
    ELSE IF summary.focus_level = "medium" THEN "medium"
    ELSE "long"

\* teaching method: the paragraph chosen for "教学方法"
MethodStrategy(summary) ==
    IF summary.main_preference \in
          {"code_examples", "text_explanations", "analogies", "visual_aids",
           "interactive"}
    THEN summary.main_preference
    ELSE "mixed"

TeachingStrategy(summary) ==
    [explanation |-> ExplanationStrategy(summary),
     feedback |-> FeedbackStrategy(summary),
     content |-> ContentStrategy(summary),
     method |-> MethodStrategy(summary)]

\* two summaries with the same cognitive load, confusion level and focus
AgreeOnLoadConfusionFocus(a, b) ==
    /\ a.cognitive_load = b.cognitive_load
    /\ a.confusion_level = b.confusion_level
    /\ a.focus_level = b.focus_level

\* _generate_teaching_strategy(summary); after records how the summary of
\* the call before compares with this one
generate_teaching_strategy(summary) ==
    /\ ret' = [op |-> "generate_teaching_strategy", raised |-> FALSE,
               summary |-> summary, strategy |-> TeachingStrategy(summary),
               after |->
                   IF ret.op # "generate_teaching_strategy" THEN "first"
                   ELSE IF ret.summary = summary THEN "same"
                   ELSE IF AgreeOnLoadConfusionFocus(ret.summary, summary)
                             /\ ret.summary.frustration_level
                                   = summary.frustration_level
                   THEN "agreeing"
                   ELSE "other"]
    /\ UNCHANGED <<svcVars, bktVars, mlVars>>

NextPrompt == \E summary \in Summaries : generate_teaching_strategy(summary)

SpecPrompt == InitML /\ [][NextPrompt]_vars

BothStrategies ==
    ret.op = "generate_teaching_strategy" /\ ret'.op = "generate_teaching_strategy"

\* C20 (as claimed): the teaching-strategy parameters (explanation depth,
\* encouragement intensity, content length) are a function of cognitive-load
\* level, confusion level and focus level alone: two learner summaries that
\* agree on those three fields yield the same explanation, feedback and
\* content-length strategy.
C20_Original_LoadConfusionFocusOnly ==
    [][(BothStrategies /\ AgreeOnLoadConfusionFocus(ret.summary, ret'.summary)) =>
          /\ ret'.strategy.explanation = ret.strategy.explanation
          /\ ret'.strategy.feedback = ret.strategy.feedback
          /\ ret'.strategy.content = ret.strategy.content]_vars

\* C20 (amended): the three parameters are a deterministic function of
\* cognitive-load level, confusion level, frustration level and focus
\* level: two summaries that agree on those four fields yield the same
\* explanation, feedback and content-length strategy.  The explanation
\* depth depends on cognitive load and confusion only, the encouragement on
\* the frustration level only, and the content length on the focus level
\* only.
C20_FourFieldsDetermineStrategy ==
    [][BothStrategies =>
          LET a == ret.summary
              b == ret'.summary
          IN  /\ (a.cognitive_load = b.cognitive_load
                    /\ a.confusion_level = b.confusion_level) =>
                     ret'.strategy.explanation = ret.strategy.explanation
              /\ a.frustration_level = b.frustration_level =>
                     ret'.strategy.feedback = ret.strategy.feedback
              /\ a.focus_level = b.focus_level =>
                     ret'.strategy.content = ret.strategy.content
              /\ (AgreeOnLoadConfusionFocus(a, b)
                    /\ a.frustration_level = b.frustration_level) =>
                     /\ ret'.strategy.explanation = ret.strategy.explanation
                     /\ ret'.strategy.feedback = ret.strategy.feedback
                     /\ ret'.strategy.content = ret.strategy.content]_vars

\* C20 witness: a strategy was generated for a frustrated learner with low
\* load, no confusion and high focus, right after one for another summary
\* agreeing on the four fields: technical explanations, long content, and
\* encouraging feedback.
C20_Witness ==
    /\ ret.op = "generate_teaching_strategy"
    /\ ret.after = "agreeing"
    /\ ret.summary.cognitive_load = "low"
    /\ ret.summary.confusion_level = "none"
    /\ ret.summary.focus_level = "high"
    /\ ret.summary.frustration_level = "high"
    /\ ret.strategy.explanation = "technical"
    /\ ret.strategy.content = "long"
    /\ ret.strategy.feedback = "encouraging"

\* probability a of one distribution against probability b of another
ProbLess(da, ka, db, kb) == da.num[ka] * db.den < db.num[kb] * da.den

\* C22: whenever the difficulty distribution is built for a learner whose
\* confusion is moderate or severe or whose cognitive load is high, its easy
\* probability is strictly larger, and its hard probability no larger, than
\* in the distribution built for the same knowledge level with confusion
\* none or slight and load low or medium.
C22_ShiftedTowardEasy ==
    (/\ ret.op = "select_difficulty"
     /\ \/ ret.confusion_level \in {"moderate", "severe"}
        \/ ret.cognitive_load = "high") =>
        \A conf \in {"none", "slight"}, load \in {"low", "medium"} :
            LET plain == DetermineDifficultyDistribution(
                             ret.knowledge_level, conf, load)
            IN  /\ ProbLess(plain, "easy", ret.distribution, "easy")
                /\ ~ProbLess(plain, "hard", ret.distribution, "hard")

\* C22 witness: an advanced learner (level 4.0) in moderate confusion under
\* low load: easy rose from 0.2 to 0.4 and hard fell from 0.3 to 0.1.
C22_Witness ==
    /\ ret.op = "select_difficulty"
    /\ ret.knowledge_level = 40
    /\ ret.confusion_level = "moderate"
    /\ ret.cognitive_load = "low"
    /\ ret.distribution.num = [easy |-> 4, medium |-> 5, hard |-> 1]
    /\ ret.distribution.den = 10
    /\ DetermineDifficultyDistribution(40, "none", "low").num
           = [easy |-> 2, medium |-> 5, hard |-> 3]

(***************************************************************************)
(* SingleUserLearningModel.update_from_behavior                            *)
(***************************************************************************)
\* feature vectors _extract_features can return: rule scores on both sides
\* of 0.3, 0.4 and 0.7, and confusion signals from none to strong
BehaviorFeatures ==
    [edit_frequency : {0, 10, 20}, error_rate : {0, 900},
     avg_pause_duration : {5, 30}, help_frequency : {0, 5},
     code_length_variance : {0}]

\* whether this call falls into the second of the minute in which
\* _save_persistent_data runs, and whether the write succeeds
SaveOutcomes == {"not_due", "saved", "write_failed"}

\* update_from_behavior: the base-model update (when it raises, the
\* enclosing try logs and nothing else runs), feature extraction,
\* predict_states, _integrate_ml_predictions, and the save that is due
\* about once a minute; nothing is returned and nothing is raised
update_from_behavior(f, base_ok, cogOut, confOut, cogFail, confFail, intFail, save) ==
    LET ps == PredictStates(predictors, f, cogOut, confOut, cogFail, confFail)
        done == base_ok /\ ~ps.raised
    IN  /\ cognitive_state' =
               IF done
               THEN IntegrateMLPredictions(cognitive_state, ps.results, intFail)
               ELSE cognitive_state
        /\ bkt_file' =
               IF done /\ save = "saved"
               THEN ExportLearningData(trackers, fitted_params)
               ELSE bkt_file
        /\ ret' = [op |-> "update_from_behavior", raised |-> FALSE,
                   applied |-> done,
                   results |-> IF done THEN ps.results ELSE << >>]
        /\ UNCHANGED <<svcVars, trackers, fitted_params, predictors,
                       training_data>>

\* behaviour updates of a learner model whose predictors were constructed
\* and never trained
NextBehavior ==
    \E f \in BehaviorFeatures, base_ok \in BOOLEAN,
          co \in OutputsFor("cognitive_load", CogModelOutputs),
          uo \in OutputsFor("confusion", ConfModelOutputs),
          cf \in PredictFailuresFor("cognitive_load"),
          uf \in PredictFailuresFor("confusion"),
          intFail \in IntegrateFailures, save \in SaveOutcomes :
          update_from_behavior(f, base_ok, co, uo, cf, uf, intFail, save)

SpecBehavior == InitML /\ [][NextBehavior]_vars

Untrained == \A pn \in PredNames : ~predictors[pn].is_trained

\* C28: an update_from_behavior call made while both predictors are
\* untrained leaves confusion_score and confusion_level as they were, never
\* turns the cognitive load into 'medium', and changes the cognitive load
\* or its confidence only to a rule-based 'high' or 'low' result whose
\* confidence is above 0.7; a rule-based 'medium' changes nothing.
C28_UntrainedBehaviorUpdates ==
    [][(ret'.op = "update_from_behavior" /\ Untrained) =>
          /\ cognitive_state'.confusion_score = cognitive_state.confusion_score
          /\ cognitive_state'.confusion_level = cognitive_state.confusion_level
          /\ cognitive_state'.cognitive_load = "medium" =>
                 cognitive_state.cognitive_load = "medium"
          /\ cognitive_state' # cognitive_state =>
                 /\ ret'.applied
                 /\ ret'.results["cognitive_load"].path = "rule"
                 /\ ret'.results["cognitive_load"].prediction \in {"high", "low"}
                 /\ ret'.results["cognitive_load"].confidence > ConfidenceGate
                 /\ cognitive_state'.cognitive_load
                        = ret'.results["cognitive_load"].prediction
          /\ (ret'.applied
                /\ ret'.results["cognitive_load"].prediction = "medium") =>
                 cognitive_state' = cognitive_state]_vars

\* C28 witness: with both predictors untrained and the load set to 'high'
\* by an earlier call, a call whose rule results were 'medium' (confidence
\* 0.7) and a confusion score of 0.67 (confidence 0.6) has left the load at
\* 'high' and the confusion at its initial 0 / 'none'.
C28_Witness ==
    /\ ret.op = "update_from_behavior"
    /\ ret.applied
    /\ Untrained
    /\ ret.results["cognitive_load"].prediction = "medium"
    /\ ret.results["cognitive_load"].confidence = ConfidenceGate
    /\ ret.results["confusion"].prediction = 670
    /\ ret.results["confusion"].confidence = 600
    /\ cognitive_state.cognitive_load = "high"
    /\ cognitive_state.load_confidence > ConfidenceGate
    /\ cognitive_state.confusion_score = 0
    /\ cognitive_state.confusion_level = "none"

(***************************************************************************)
(* Trackers of an AdaptiveBKTSystem: isolation and lazy creation           *)
(***************************************************************************)
IsPrefix(a, b) == Len(a) <= Len(b) /\ a = SubSeq(b, 1, Len(a))

\* C26: no step removes a tracker or shortens or rewrites its history;
\* update_knowledge for one knowledge point leaves every other tracker as it
\* was and creates none for another point, it extends the existing tracker
\* of its own point by one observation, and a get_tracker lookup of a point
\* that has a tracker (as predict_performance makes) returns that tracker
\* unchanged.
C26_TrackersIsolatedAndKept ==
    [][/\ \A k \in DOMAIN trackers :
              /\ k \in DOMAIN trackers'
              /\ IsPrefix(trackers[k].observations, trackers'[k].observations)
              /\ IsPrefix(trackers[k].mastery_probabilities,
                          trackers'[k].mastery_probabilities)
       /\ ret'.op = "update_knowledge" =>
              /\ DOMAIN trackers' = DOMAIN trackers \cup {ret'.kp}
              /\ \A k \in DOMAIN trackers \ {ret'.kp} :
                     trackers'[k] = trackers[k]
              /\ ret'.kp \in DOMAIN trackers =>
                     Len(trackers'[ret'.kp].observations)
                         = Len(trackers[ret'.kp].observations) + 1
       /\ (ret'.op = "predict_performance" /\ ret'.kp \in DOMAIN trackers) =>
              trackers' = trackers]_vars

\* C26 witness: the second observation of css_grid was recorded while
\* flexbox had a tracker holding one observation.
C26_Witness ==
    /\ ret.op = "update_knowledge"
    /\ ret.kp = "css_grid"
    /\ DOMAIN trackers = {"css_grid", "flexbox"}
    /\ Len(trackers["css_grid"].observations) = 2
    /\ Len(trackers["flexbox"].observations) = 1
    /\ Len(trackers["flexbox"].mastery_probabilities) = 1

\* C27: predict_performance on a point without a tracker adds exactly one
\* tracker, for that point, with no observations, an empty trajectory and
\* mastery P(L0) of its parameters; get_overall_mastery leaves the set of
\* trackers as it is, also when it is asked about points that have none;
\* both leave every existing tracker and the fitted parameters unchanged.
C27_PredictCreatesOverallDoesNot ==
    [][/\ (ret'.op = "predict_performance" /\ ret'.kp \notin DOMAIN trackers) =>
              /\ DOMAIN trackers' = DOMAIN trackers \cup {ret'.kp}
              /\ trackers'[ret'.kp].observations = <<>>
              /\ trackers'[ret'.kp].mastery_probabilities = <<>>
              /\ trackers'[ret'.kp].params =
                     (IF ret'.kp \in DOMAIN fitted_params
                      THEN fitted_params[ret'.kp] ELSE DefaultParams)
              /\ trackers'[ret'.kp].current_mastery_prob
                     = trackers'[ret'.kp].params.P_L0
       /\ ret'.op = "get_overall_mastery" =>
              DOMAIN trackers' = DOMAIN trackers
       /\ ret'.op \in {"predict_performance", "get_overall_mastery"} =>
              /\ \A k \in DOMAIN trackers :
                     k \in DOMAIN trackers' /\ trackers'[k] = trackers[k]
              /\ fitted_params' = fitted_params]_vars

\* C27 witness: predict_performance created the tracker of flexbox (no
\* observations, mastery 0.1) while css_grid had a tracker with history.
C27_Witness ==
    /\ ret.op = "predict_performance"
    /\ ret.created
    /\ ret.kp = "flexbox"
    /\ trackers["flexbox"].observations = <<>>
    /\ trackers["flexbox"].current_mastery_prob = DefaultParams.P_L0
    /\ ret.value[2] = DefaultParams.P_L0
    /\ "css_grid" \in DOMAIN trackers
    /\ Len(trackers["css_grid"].observations) = 1

(***************************************************************************)
(* What a re-fit leaves alone                                              *)
(***************************************************************************)
\* C25: on an update_knowledge call that triggers a re-fit, the tracker
\* afterwards differs from the tracker as update_mastery left it in its
\* params only: observations and trajectory are the old ones plus the new
\* entry, the current mastery is the value the call returns, and that value
\* is the update computed with the parameters the tracker had before the
\* re-fit.  Of fitted_params, only the entry of that knowledge point may
\* change.
C25_RefitTouchesOnlyParams ==
    [][(ret'.op = "update_knowledge" /\ ret'.refit # "none") =>
          LET kp == ret'.kp
              old == trackers[kp]
              new == trackers'[kp]
              obs == new.observations[Len(new.observations)]
          IN  /\ new.observations = Append(old.observations, obs)
              /\ ret'.value = NewMastery(old.params, old.current_mastery_prob,
                                         obs.correct)
              /\ new.current_mastery_prob = ret'.value
              /\ new.mastery_probabilities
                     = Append(old.mastery_probabilities, ret'.value)
              /\ DOMAIN fitted_params' \subseteq DOMAIN fitted_params \cup {kp}
              /\ \A k \in DOMAIN fitted_params \ {kp} :
                     k \in DOMAIN fitted_params'
                         /\ fitted_params'[k] = fitted_params[k]]_vars

\* C25 witness: the 20th observation triggered a successful re-fit that
\* installed non-default parameters, while the tracker's mastery is the
\* returned value and differs from the new P(L0).
C25_Witness ==
    /\ Refitted
    /\ ret.refit = "success"
    /\ ret.count = refit_interval
    /\ LET tr == trackers[ret.kp]
       IN  /\ tr.params # DefaultParams
           /\ tr.params = fitted_params[ret.kp]
           /\ tr.current_mastery_prob = ret.value
           /\ tr.current_mastery_prob # tr.params.P_L0
           /\ Len(tr.observations) = refit_interval
           /\ Len(tr.mastery_probabilities) = refit_interval

(***************************************************************************)
(* TrainingScheduler.trim_buffer on the training buffer kept as four lists *)
(***************************************************************************)
\* MLStatePredictor.training_data as constructed: four parallel lists
EmptyBuffer ==
    [features |-> <<>>, cognitive_load_labels |-> <<>>,
     confusion_scores |-> <<>>, focus_scores |-> <<>>]

\* the confusion score _add_ml_training_sample stores with each label
ConfusionScoreOf(label) ==
    IF label = "low" THEN 100 ELSE IF label = "high" THEN 800 ELSE 400

\* add_training_sample(feature, cognitive_load, confusion_score, focus_score);
\* the feature object is identified by the number of the sample
AppendSample(td, id, label) ==
    [features |-> Append(td.features, id),
     cognitive_load_labels |-> Append(td.cognitive_load_labels, label),
     confusion_scores |-> Append(td.confusion_scores, ConfusionScoreOf(label)),
     focus_scores |-> Append(td.focus_scores, 700)]

\* the label of sample i in the fixed workload that filled the buffer
WorkloadLabel(i) ==
    IF i % 3 = 0 THEN "high" ELSE IF i % 3 = 1 THEN "low" ELSE "medium"

\* the buffer after n add_training_sample calls of that workload
FilledBuffer(n) ==
    [features |-> [i \in 1..n |-> i],
     cognitive_load_labels |-> [i \in 1..n |-> WorkloadLabel(i)],
     confusion_scores |-> [i \in 1..n |-> ConfusionScoreOf(WorkloadLabel(i))],
     focus_scores |-> [i \in 1..n |-> 700]]

\* samples added in one run
MaxBuffered == 4

\* max_buffer_size of the schedulers tried: small ones and the default
SchedulerSizes == {0, 1, 2, max_buffer_size}

\* buffer lengths at the start: empty, and one short of the default limit
StartLengths == {0, max_buffer_size - 1}

\* mutant: del arr[-excess:], the newest entries go
DelPrefixNewest(arr, excess) ==
    SubSeq(arr, 1, Len(arr) - Min(excess, Len(arr)))

\* del arr[:excess]
DelPrefix(arr, excess) ==
    SubSeq(arr, Min(excess, Len(arr)) + 1, Len(arr))

\* trim_buffer(training_data) of a scheduler with the given max_buffer_size:
\* the map afterwards (the lists are trimmed in place)
TrimBuffer(td, size) ==
    LET current_size == IF "features" \in DOMAIN td
                        THEN Len(td["features"]) ELSE 0
    IN  IF current_size <= size
        THEN td
        ELSE [key \in DOMAIN td |-> DelPrefix(td[key], current_size - size)]

InitTrim ==
    /\ trackers = << >>
    /\ fitted_params = << >>
    /\ bkt_file = NoFile
    /\ predictors = [p \in PredNames |-> NewPredictor]
    /\ \E n \in StartLengths :
          /\ training_data = FilledBuffer(n)
          /\ ret = [op |-> "init", raised |-> FALSE, added |-> 0,
                    last_id |-> n, size |-> 0, before |-> FilledBuffer(n)]
    /\ cognitive_state = DefaultCognitiveState
    /\ ServiceStart

add_training_sample_lists(label) ==
    /\ ret.added < MaxBuffered
    /\ training_data' = AppendSample(training_data, ret.last_id + 1, label)
    /\ ret' = [op |-> "add_training_sample", raised |-> FALSE,
               added |-> ret.added + 1, last_id |-> ret.last_id + 1,
               size |-> 0, before |-> training_data]
    /\ UNCHANGED <<svcVars, bktVars, predictors, cognitive_state>>

trim_buffer(size) ==
    /\ training_data' = TrimBuffer(training_data, size)
    /\ ret' = [op |-> "trim_buffer", raised |-> FALSE,
               added |-> ret.added, last_id |-> ret.last_id,
               size |-> size, before |-> training_data]
    /\ UNCHANGED <<svcVars, bktVars, predictors, cognitive_state>>

NextTrim ==
    \/ \E label \in LoadLevels : add_training_sample_lists(label)
    \/ \E size \in SchedulerSizes : trim_buffer(size)

SpecTrim == InitTrim /\ [][NextTrim]_vars

SameLengths(td) ==
    \A j, k \in DOMAIN td : Len(td[j]) = Len(td[k])

\* the last n entries of arr, in their order
Newest(arr, n) == SubSeq(arr, Len(arr) - n + 1, Len(arr))

\* C24: after trim_buffer on a training_data map whose lists have one
\* common length, every list has at most max_buffer_size entries, each list
\* is exactly the newest entries of what it was, in the same order, every
\* list lost the same number of entries, and nothing changed if the
\* features list was within max_buffer_size already.
C24_TrimKeepsNewest ==
    (ret.op = "trim_buffer" /\ SameLengths(ret.before)) =>
        LET before == ret.before
            after == training_data
            removed == Len(before.features) - Len(after.features)
        IN  /\ DOMAIN after = DOMAIN before
            /\ \A key \in DOMAIN after :
                   /\ Len(after[key]) <= ret.size
                   /\ Len(after[key]) <= Len(before[key])
                   /\ after[key] = Newest(before[key], Len(after[key]))
                   /\ Len(before[key]) - Len(after[key]) = removed
            /\ removed = Max(0, Len(before.features) - ret.size)
            /\ Len(before.features) <= ret.size => after = before

\* C24 witness: a scheduler with the default limit 500 trimmed a buffer of
\* 502 samples: samples 1 and 2 are gone from every list and samples
\* 3 .. 502 remain in order.
C24_Witness ==
    /\ ret.op = "trim_buffer"
    /\ ret.size = max_buffer_size
    /\ Len(ret.before.features) = max_buffer_size + 2
    /\ Len(training_data.features) = max_buffer_size
    /\ training_data.features[1] = 3
    /\ training_data.features[max_buffer_size] = max_buffer_size + 2
    /\ training_data.cognitive_load_labels
           = Newest(ret.before.cognitive_load_labels, max_buffer_size)

(***************************************************************************)
(* FeatureEngineer: transform right after a fit_transform that returned    *)
(***************************************************************************)
\* C23: a transform that directly follows a fit_transform which returned on
\* the same engineer, and in which no library call fails for reasons of its
\* own, succeeds and returns as many columns as that fit_transform did
\* (whether the fit applied selection or skipped it).
C23_TransformMatchesLastFit ==
    [][(/\ ret.op = "fit_transform"
        /\ ~ret.raised
        /\ ret'.op = "transform"
        /\ ret'.pn = ret.pn
        /\ ret'.error \notin {"scaler_error", "selector_error"}) =>
           (~ret'.raised /\ ret'.cols = ret.cols)]_vars

(***************************************************************************)
(* update_mastery entered by two callers: the statements of the method as  *)
(* separate steps, each reading or writing the tracker's fields once       *)
(***************************************************************************)
Callers == {"session_a", "session_b"}

\* update_mastery calls started in one run
MaxRaceCalls == 2

RaceKP == "css_grid"

\* parameters of the shared tracker: the defaults and one fitted set
RaceParams == {DefaultParams,
               [P_L0 |-> 500, P_T |-> 100, P_G |-> 300, P_S |-> 100]}

\* the locals of one update_mastery call
NewFrame(obs) ==
    [pc |-> "append", observation |-> obs,
     p_correct_given_mastery |-> 0, p_correct_given_no_mastery |-> 0,
     numerator |-> 0, denominator |-> 0]

InitRace ==
    /\ \E p \in RaceParams : trackers = (RaceKP :> NewTracker(p))
    /\ fitted_params = << >>
    /\ bkt_file = NoFile
    /\ MLStart
    /\ ServiceStart
    /\ ret = [op |-> "init", kp |-> RaceKP, value |-> 0, raised |-> FALSE,
              started |-> 0, overlapped |-> FALSE]

Without(f, c) == [d \in DOMAIN f \ {c} |-> f[d]]

At(c, pc) == c \in DOMAIN in_flight /\ in_flight[c].pc = pc

\* a caller enters update_mastery(observation)
call_update_mastery(c, obs) ==
    /\ c \notin DOMAIN in_flight
    /\ ret.started < MaxRaceCalls
    /\ in_flight' = in_flight @@ (c :> NewFrame(obs))
    /\ ret' = [ret EXCEPT !.started = @ + 1,
                          !.overlapped = @ \/ in_flight # NoCalls]
    /\ UNCHANGED <<models, bktVars, mlVars>>

\* self.observations.append(observation), then the evidence branch
append_observation(c) ==
    /\ At(c, "append")
    /\ LET fr == in_flight[c]
           tr == trackers[RaceKP]
       IN  /\ trackers' = [trackers EXCEPT ![RaceKP].observations =
                              Append(@, fr.observation)]
           /\ in_flight' = [in_flight EXCEPT ![c] =
                  [fr EXCEPT !.pc = "numerator",
                      !.p_correct_given_mastery =
                          PGivenMastery(tr.params, fr.observation.correct),
                      !.p_correct_given_no_mastery =
                          PGivenNoMastery(tr.params, fr.observation.correct)]]
    /\ UNCHANGED <<models, fitted_params, bkt_file, mlVars, ret>>

\* mutant: the numerator is taken from the prior P(L0), not the current mastery
FrameNumeratorFromPrior(tr, fr) ==
    fr.p_correct_given_mastery * tr.params.P_L0

\* numerator = p_correct_given_mastery * self.current_mastery_prob
FrameNumerator(tr, fr) ==
    fr.p_correct_given_mastery * tr.current_mastery_prob

compute_numerator(c) ==
    /\ At(c, "numerator")
    /\ LET fr == in_flight[c]
       IN  in_flight' = [in_flight EXCEPT ![c] =
               [fr EXCEPT !.pc = "denominator_mastery",
                          !.numerator = FrameNumerator(trackers[RaceKP], fr)]]
    /\ UNCHANGED <<models, bktVars, mlVars, ret>>

\* the first term of the denominator: one more read of current_mastery_prob
compute_denominator_mastery(c) ==
    /\ At(c, "denominator_mastery")
    /\ LET fr == in_flight[c]
       IN  in_flight' = [in_flight EXCEPT ![c] =
               [fr EXCEPT !.pc = "denominator_no_mastery",
                          !.denominator =
                              fr.p_correct_given_mastery
                              * trackers[RaceKP].current_mastery_prob]]
    /\ UNCHANGED <<models, bktVars, mlVars, ret>>

\* the second term, again reading current_mastery_prob, and the floor
compute_denominator_no_mastery(c) ==
    /\ At(c, "denominator_no_mastery")
    /\ LET fr == in_flight[c]
           d == fr.denominator
                + fr.p_correct_given_no_mastery
                  * (Scale - trackers[RaceKP].current_mastery_prob)
       IN  in_flight' = [in_flight EXCEPT ![c] =
               [fr EXCEPT !.pc = "write",
                          !.denominator = IF d < DenomFloor THEN DenomFloor
                                          ELSE d]]
    /\ UNCHANGED <<models, bktVars, mlVars, ret>>

\* posterior_mastery and the assignment to self.current_mastery_prob
write_mastery(c) ==
    /\ At(c, "write")
    /\ LET fr == in_flight[c]
           posterior_mastery == (fr.numerator * Scale) \div fr.denominator
       IN  trackers' = [trackers EXCEPT ![RaceKP].current_mastery_prob =
               Transition(posterior_mastery, trackers[RaceKP].params.P_T)]
    /\ in_flight' = [in_flight EXCEPT ![c].pc = "log"]
    /\ UNCHANGED <<models, fitted_params, bkt_file, mlVars, ret>>

\* self.mastery_probabilities.append(self.current_mastery_prob)
log_mastery(c) ==
    /\ At(c, "log")
    /\ trackers' = [trackers EXCEPT ![RaceKP].mastery_probabilities =
           Append(@, trackers[RaceKP].current_mastery_prob)]
    /\ in_flight' = [in_flight EXCEPT ![c].pc = "return"]
    /\ UNCHANGED <<models, fitted_params, bkt_file, mlVars, ret>>

\* return self.current_mastery_prob
return_mastery(c) ==
    /\ At(c, "return")
    /\ in_flight' = Without(in_flight, c)
    /\ ret' = [ret EXCEPT !.op = "update_mastery",
                          !.value = trackers[RaceKP].current_mastery_prob]
    /\ UNCHANGED <<models, bktVars, mlVars>>

NextRace ==
    \E c \in Callers :
        \/ \E obs \in Observations : call_update_mastery(c, obs)
        \/ append_observation(c)
        \/ compute_numerator(c)
        \/ compute_denominator_mastery(c)
        \/ compute_denominator_no_mastery(c)
        \/ write_mastery(c)
        \/ log_mastery(c)
        \/ return_mastery(c)

SpecRace == InitRace /\ [][NextRace]_vars

\* the tracker after update_mastery ran on obsSeq[i..] one call at a time
RECURSIVE ReplayFrom(_, _, _)
ReplayFrom(tr, obsSeq, i) ==
    IF i > Len(obsSeq) THEN tr
    ELSE ReplayFrom(UpdatedTracker(tr, obsSeq[i]), obsSeq, i + 1)

SerialMastery(tr, obsSeq) ==
    ReplayFrom(NewTracker(tr.params), obsSeq, 1).current_mastery_prob

\* C21: once no update_mastery call is in progress, every observation handed
\* to a call is recorded; and if no call began while another was in
\* progress, the tracker (mastery, observations, trajectory) equals the
\* sequential replay of its observations.  A final mastery that differs
\* from the replay therefore needs overlapping calls; the state in which it
\* differs from both serial orders is C21_Witness.
C21_SerialUpdatesEqualReplay ==
    in_flight = NoCalls =>
        LET tr == trackers[RaceKP]
        IN  /\ Len(tr.observations) = ret.started
            /\ ~ret.overlapped =>
                   tr = ReplayFrom(NewTracker(tr.params), tr.observations, 1)
            /\ tr.current_mastery_prob
                  # SerialMastery(tr, tr.observations) => ret.overlapped

\* C21 witness: two overlapping calls have both returned, both observations
\* are recorded, and the final mastery is the result of neither serial order
\* (here: of one update alone, the other being lost).
C21_Witness ==
    /\ in_flight = NoCalls
    /\ ret.overlapped
    /\ LET tr == trackers[RaceKP]
           o == tr.observations
       IN  /\ Len(o) = 2
           /\ tr.current_mastery_prob # SerialMastery(tr, o)
           /\ tr.current_mastery_prob # SerialMastery(tr, <<o[2], o[1]>>)
           /\ \E i \in 1..2 :
                  tr.current_mastery_prob
                      = SerialMastery(tr, <<o[i]>>)

(***************************************************************************)
(* StudentModelService: learner models keyed by student id                 *)
(***************************************************************************)
StudentIds == {"alice", "bob"}

\* ids of StudentModelService.default_knowledge_points
default_knowledge_points ==
    {"html_basics", "css_basics", "js_basics", "dom_manipulation",
     "event_handling", "responsive_design", "web_accessibility"}

PreferenceNames ==
    {"code_examples", "text_explanations", "analogies", "visual_aids",
     "interactive"}

\* StudentModel(id=...) as get_model fills it: every default knowledge
\* point at NOVICE, the state defaults, every preference at 0.33 (weights
\* in hundredths).  Each model gets its own copy of the default
\* CognitiveState, EmotionalState and knowledge_points (pydantic copies
\* unhashable defaults per instance).  Time stamps and the per-point
\* confidence, which no operation reads back, are not carried.
NewStudentModel ==
    [knowledge_points |-> [kp \in default_knowledge_points |-> "novice"],
     cognitive_load |-> "medium", confusion_level |-> "none",
     frustration_level |-> "none", focus_level |-> "medium",
     preferences |-> [p \in PreferenceNames |-> 33]]

\* get_model: the models map after the lookup (lazy creation)
GetModel(ms, student_id) ==
    IF student_id \in DOMAIN ms THEN ms
    ELSE [s \in DOMAIN ms \cup {student_id} |->
             IF s = student_id THEN NewStudentModel ELSE ms[s]]

\* mutant: a score above 0.8 on an ADVANCED point promotes it to EXPERT
LevelForScorePromoting(level, score) ==
    IF score > 800
    THEN IF level \in {"advanced", "expert"} THEN "expert" ELSE "advanced"
    ELSE IF score > 600 THEN "intermediate"
    ELSE IF score > 400 THEN "beginner"
    ELSE "novice"

\* the level a knowledge point gets for a test score (in thousandths)
LevelForScore(level, score) ==
    IF score > 800
    THEN IF level # "expert" THEN "advanced" ELSE "expert"
    ELSE IF score > 600 THEN "intermediate"
    ELSE IF score > 400 THEN "beginner"
    ELSE "novice"

LoadForErrors(error_count) ==
    IF error_count > 5 THEN "high"
    ELSE IF error_count > 2 THEN "medium"
    ELSE "low"

ConfusionFor(success, attempts) ==
    IF ~success /\ attempts > 3 THEN "severe"
    ELSE IF ~success /\ attempts > 2 THEN "moderate"
    ELSE IF ~success /\ attempts > 1 THEN "slight"
    ELSE "none"

\* mutant: frustration reaches HIGH from 3 attempts on
FrustrationForEarlier(success, attempts) ==
    IF ~success /\ attempts > 2 THEN "high"
    ELSE IF ~success /\ attempts > 1 THEN "medium"
    ELSE IF ~success /\ attempts > 0 THEN "low"
    ELSE "none"

FrustrationFor(success, attempts) ==
    IF ~success /\ attempts > 3 THEN "high"
    ELSE IF ~success /\ attempts > 2 THEN "medium"
    ELSE IF ~success /\ attempts > 1 THEN "low"
    ELSE "none"

\* test_results["relevant_knowledge_points"]: kp id -> score; the empty map
\* also stands for a missing key
RelevantResults ==
    {<< >>}
      \cup {("html_basics" :> score) : score \in {300, 500, 700, 900}}
      \cup {("unknown_point" :> 900)}
      \cup {[kp \in default_knowledge_points |-> 900]}

\* test_results["attempts"] and ["success"]: one of them missing, both
\* given, or attempts given as a value that cannot be compared with a number
OutcomeInputs ==
    {[kind |-> "absent", success |-> FALSE, attempts |-> 0],
     [kind |-> "invalid_attempts", success |-> FALSE, attempts |-> 0],
     [kind |-> "given", success |-> TRUE, attempts |-> 5]}
      \cup {[kind |-> "given", success |-> FALSE, attempts |-> a] : a \in 1..4}

\* the knowledge-point block of update_from_code_submission
UpdatedLevels(points, relevant) ==
    [kp \in DOMAIN points |->
        IF kp \in DOMAIN relevant
        THEN LevelForScore(points[kp], relevant[kp])
        ELSE points[kp]]

\* update_from_code_submission on one model: the model afterwards and
\* whether the call raised (with the assignments made before the raise kept)
SubmittedModel(m, relevant, errors, outcome) ==
    LET m1 == [m EXCEPT !.knowledge_points = UpdatedLevels(@, relevant)]
        m2 == IF errors.given
              THEN [m1 EXCEPT !.cognitive_load = LoadForErrors(errors.count)]
              ELSE m1
    IN  IF outcome.kind = "invalid_attempts"
        THEN [model |-> m2, raised |-> TRUE]
        ELSE IF outcome.kind = "given"
        THEN [model |->
                 [m2 EXCEPT !.confusion_level =
                                ConfusionFor(outcome.success, outcome.attempts),
                            !.frustration_level =
                                FrustrationFor(outcome.success, outcome.attempts)],
              raised |-> FALSE]
        ELSE [model |-> m2, raised |-> FALSE]

NoOutcome == [kind |-> "absent", success |-> FALSE, attempts |-> 0]

get_model(student_id) ==
    /\ models' = GetModel(models, student_id)
    /\ ret' = [op |-> "get_model", student |-> student_id, raised |-> FALSE,
               outcome |-> NoOutcome, value |-> 0]
    /\ UNCHANGED <<in_flight, bktVars, mlVars>>

update_from_code_submission(student_id, relevant, errors, outcome) ==
    LET ms == GetModel(models, student_id)
        r == SubmittedModel(ms[student_id], relevant, errors, outcome)
    IN  /\ models' = [ms EXCEPT ![student_id] = r.model]
        /\ ret' = [op |-> "update_from_code_submission",
                   student |-> student_id, raised |-> r.raised,
                   outcome |-> outcome, value |-> 0]
        /\ UNCHANGED <<in_flight, bktVars, mlVars>>

\* behavior_data["idle_time"] in seconds; -1 stands for a missing key
IdleTimes == {-1, 400}

\* behavior_data["interaction_type"]: missing, a preference, or another string
InteractionTypes == {"absent", "code_examples", "scroll"}

\* interactions of one kind counted into a learner's preferences
MaxInteractions == 1

FocusForIdle(focus_level, idle_time) ==
    IF idle_time < 0 THEN focus_level
    ELSE IF idle_time > 300 THEN "low"
    ELSE IF idle_time > 120 THEN "medium"
    ELSE "high"

\* the preference weights after an interaction of the given type
UpdatedPreferences(preferences, interaction) ==
    IF interaction \in PreferenceNames
    THEN [p \in DOMAIN preferences |->
             IF p = interaction THEN Min(preferences[p] + 5, 100)
             ELSE Max(preferences[p] - 1, 0)]
    ELSE preferences

\* StudentModelService.update_from_behavior
service_update_from_behavior(student_id, idle_time, interaction) ==
    LET ms == GetModel(models, student_id)
    IN  /\ interaction \in PreferenceNames =>
               ms[student_id].preferences[interaction] < 33 + 5 * MaxInteractions
        /\ models' = [ms EXCEPT ![student_id] =
               [@ EXCEPT !.focus_level = FocusForIdle(@, idle_time),
                         !.preferences = UpdatedPreferences(@, interaction)]]
        /\ ret' = [op |-> "update_from_behavior", student |-> student_id,
                   raised |-> FALSE, outcome |-> NoOutcome, value |-> 0]
        /\ UNCHANGED <<in_flight, bktVars, mlVars>>

LevelNumber(level) ==
    IF level = "novice" THEN 1
    ELSE IF level = "beginner" THEN 2
    ELSE IF level = "intermediate" THEN 3
    ELSE IF level = "advanced" THEN 4
    ELSE 5

\* get_model_summary: the average knowledge_level as total_level over
\* max(count, 1)
get_model_summary(student_id) ==
    LET ms == GetModel(models, student_id)
        points == ms[student_id].knowledge_points
        levels == [kp \in DOMAIN points |-> LevelNumber(points[kp])]
    IN  /\ models' = ms
        /\ ret' = [op |-> "get_model_summary", student |-> student_id,
                   raised |-> FALSE, outcome |-> NoOutcome,
                   value |-> [total_level |-> SumOf(levels, DOMAIN levels),
                              count |-> Max(Cardinality(DOMAIN points), 1)]]
        /\ UNCHANGED <<in_flight, bktVars, mlVars>>

InitService ==
    /\ trackers = << >>
    /\ fitted_params = << >>
    /\ bkt_file = NoFile
    /\ MLStart
    /\ ServiceStart
    /\ ret = [op |-> "init", student |-> "none", raised |-> FALSE,
              outcome |-> NoOutcome, value |-> 0]

\* test_results that carry nothing but scores
NoErrors == [given |-> FALSE, count |-> 0]

\* submissions that differ in their errors and their outcome and carry no
\* scores
NextService ==
    \E s \in StudentIds :
        \/ get_model(s)
        \/ \E errors \in {NoErrors, [given |-> TRUE, count |-> 6]},
              outcome \in OutcomeInputs :
              update_from_code_submission(s, << >>, errors, outcome)
        \/ \E idle_time \in IdleTimes, interaction \in InteractionTypes :
              service_update_from_behavior(s, idle_time, interaction)
        \/ get_model_summary(s)

\* submissions that differ in their scores
NextKnowledge ==
    \E s \in StudentIds :
        \/ get_model(s)
        \/ \E relevant \in RelevantResults :
              update_from_code_submission(s, relevant, NoErrors, NoOutcome)
        \/ \E idle_time \in IdleTimes, interaction \in InteractionTypes :
              service_update_from_behavior(s, idle_time, interaction)
        \/ get_model_summary(s)

SpecService == InitService /\ [][NextService]_vars

SpecKnowledge == InitService /\ [][NextKnowledge]_vars

(***************************************************************************)
(* Confusion and frustration of a learner                                  *)
(***************************************************************************)
BucketOfConfusion(level) ==
    IF level = "none" THEN 0
    ELSE IF level = "slight" THEN 1
    ELSE IF level = "moderate" THEN 2
    ELSE 3

BucketOfFrustration(level) ==
    IF level = "none" THEN 0
    ELSE IF level = "low" THEN 1
    ELSE IF level = "medium" THEN 2
    ELSE 3

ModelBefore(student_id) ==
    IF student_id \in DOMAIN models THEN models[student_id]
    ELSE NewStudentModel

\* C29: after every StudentModelService operation each learner's confusion
\* level and frustration level are in corresponding buckets (none/none,
\* slight/low, moderate/medium, severe/high); a code submission that gives
\* both attempts and success sets the two together, to the highest bucket
\* exactly when it failed with more than 3 attempts; every other operation,
\* and every operation on another learner, leaves both as they were.
C29_ConfusionMatchesFrustration ==
    [][\A s \in DOMAIN models' :
          LET after == models'[s]
              before == ModelBefore(s)
              o == ret'.outcome
          IN  /\ after.confusion_level \in ConfusionLevels
              /\ after.frustration_level \in FrustrationLevels
              /\ BucketOfConfusion(after.confusion_level)
                   = BucketOfFrustration(after.frustration_level)
              /\ IF /\ ret'.op = "update_from_code_submission"
                    /\ ret'.student = s
                    /\ o.kind = "given"
                 THEN /\ ~ret'.raised
                      /\ after.confusion_level = "severe"
                           <=> (~o.success /\ o.attempts > 3)
                      /\ after.frustration_level = "high"
                           <=> (~o.success /\ o.attempts > 3)
                 ELSE /\ after.confusion_level = before.confusion_level
                      /\ after.frustration_level = before.frustration_level
      ]_vars

\* one learner was just put in the highest bucket by a submission that
\* failed on the 4th attempt while another learner sits in a lower bucket
C29_Witness ==
    /\ ret.op = "update_from_code_submission"
    /\ ret.outcome.kind = "given"
    /\ ~ret.outcome.success /\ ret.outcome.attempts = 4
    /\ models[ret.student].confusion_level = "severe"
    /\ models[ret.student].frustration_level = "high"
    /\ \E s \in DOMAIN models :
          /\ models[s].confusion_level = "slight"
          /\ models[s].frustration_level = "low"

(***************************************************************************)
(* Knowledge levels of a learner                                           *)
(***************************************************************************)
\* C30: no knowledge point of any learner is ever at level EXPERT, every
\* level is one of NOVICE, BEGINNER, INTERMEDIATE, ADVANCED, and the
\* average knowledge_level of a summary (total_level / count) is at most 4.
C30_NoExpertKnowledgePoint ==
    /\ \A s \in DOMAIN models :
          \A kp \in DOMAIN models[s].knowledge_points :
              models[s].knowledge_points[kp]
                  \in {"novice", "beginner", "intermediate", "advanced"}
    /\ ret.op = "get_model_summary" =>
          ret.value.total_level <= 4 * ret.value.count

\* a summary of a learner whose knowledge points are all ADVANCED: the
\* average is exactly 4
C30_Witness ==
    /\ ret.op = "get_model_summary"
    /\ \A kp \in default_knowledge_points :
          models[ret.student].knowledge_points[kp] = "advanced"
    /\ ret.value.total_level = 4 * ret.value.count

====
